---------------------------- MODULE Spec2Model ----------------------------
(***************************************************************************)
(* Resilience layer of mcp-ailint: the circuit breaker                     *)
(* (shared/circuit-breaker.ts) and the retry executor (shared/retry.ts).   *)
(*                                                                         *)
(* The breaker is one CircuitBreaker object.  JavaScript runs the body of  *)
(* execute() without interruption up to `await operation()`, so the        *)
(* admission part of execute() is one atomic step and the completion of    *)
(* the awaited operation (onSuccess / onFailure) is a later atomic step;   *)
(* any number of admitted calls may be pending in between.                 *)
(***************************************************************************)
EXTENDS Integers, Sequences, FiniteSets, TLC

(* ------------------------------ bounds -------------------------------- *)
\* largest value of the clock
MaxTime == 4
\* calls admitted between two administrative resets
MaxCalls == 4
\* admitted calls whose operation has not completed yet
MaxPending == 2
\* largest failureThreshold / halfOpenMaxCalls / recoveryTimeout tried
MaxThreshold == 2
MaxHalfOpen == 2
MaxTimeout == 2

(* --------------------------- circuit breaker --------------------------- *)
CLOSED == "closed"
OPEN == "open"
HALF_OPEN == "half_open"
CircuitState == {CLOSED, OPEN, HALF_OPEN}

\* value of an optional Date field that is undefined
NoTime == -1
\* the name the breaker was registered under
BreakerName == "rule-loading"

VARIABLES
  state, failureCount, successCount, lastFailureTime, lastSuccessTime,
  totalCalls, halfOpenCalls,   \* the private fields of CircuitBreaker
  options,                     \* the CircuitBreakerOptions given at creation
  now,                         \* Date.now()
  pending,                     \* admitted calls awaiting their operation
  last,                        \* what the latest step did and returned
  hist                         \* history of the breaker since creation / reset

breakerVars == <<state, failureCount, successCount, lastFailureTime,
                 lastSuccessTime, totalCalls, halfOpenCalls, options, now,
                 pending, last, hist>>

VARIABLES
  retryOptions,   \* the options argument of executeWithRetry
  rpc,            \* where the call of executeWithRetry stands
  attempt,        \* the loop variable
  finalAttempt, lastError,
  opLog,          \* what each call of operation() did, in order
  delays,         \* the delays slept so far, in order
  outcome         \* the RetryResult returned, or NoOutcome

retryVars == <<retryOptions, rpc, attempt, finalAttempt, lastError,
               opLog, delays, outcome>>

\* the option sets a breaker is created with
OptionSets ==
  [failureThreshold : 1..MaxThreshold,
   recoveryTimeout  : 1..MaxTimeout,
   halfOpenMaxCalls : 0..MaxHalfOpen]

\* the options a breaker gets when the caller passes none
DefaultBreakerOptions ==
  [failureThreshold |-> 5, recoveryTimeout |-> 60000, halfOpenMaxCalls |-> 3]

\* messages of the two errors execute() throws itself
OpenError == <<"Circuit breaker", BreakerName, "is OPEN - service unavailable">>
HalfOpenError == <<"Circuit breaker", BreakerName, "is in HALF_OPEN with max calls reached">>
NoError == <<>>

\* pending calls are told apart by whether they were admitted as a trial call
\* of the half-open episode the breaker entered last
Kinds == {"trial", "other"}
PendingTotal == pending["trial"] + pending["other"]

\* nothing has happened to the breaker yet:
\*   failed    failed completions
\*   opened    the breaker has been OPEN
\*   rejected  execute() has rejected a call
\*   probes    calls admitted in HALF_OPEN since HALF_OPEN was entered last
\*   trialOk   successes of those calls while the breaker stayed HALF_OPEN
\*   hoFailAt  time of the latest failure that completed in HALF_OPEN
NoHistory ==
  [failed |-> 0, opened |-> FALSE, rejected |-> FALSE, probes |-> 0,
   trialOk |-> 0, hoFailAt |-> NoTime]

Step(op, invoked, entered, error) ==
  [op |-> op, invoked |-> invoked, entered |-> entered, error |-> error]

\* mutants of shouldAttemptReset: the boundary is excluded; the timeout is
\* taken one tick short
shouldAttemptReset_strict ==
  IF lastFailureTime = NoTime THEN FALSE
  ELSE now - lastFailureTime > options.recoveryTimeout

shouldAttemptReset_early ==
  IF lastFailureTime = NoTime THEN FALSE
  ELSE now - lastFailureTime >= options.recoveryTimeout - 1

shouldAttemptReset ==
  IF lastFailureTime = NoTime THEN FALSE
  ELSE now - lastFailureTime >= options.recoveryTimeout

\* execute(): the OPEN branch moves to HALF_OPEN once the timeout has elapsed
EnterHalfOpen == state = OPEN /\ shouldAttemptReset

\* mutant of HalfOpenLimitReached: one probe too many is let through
HalfOpenLimitReached_off(st, calls) ==
  st = HALF_OPEN /\ calls > options.halfOpenMaxCalls

\* execute(): the guard that throws "max calls reached"
HalfOpenLimitReached(st, calls) ==
  st = HALF_OPEN /\ calls >= options.halfOpenMaxCalls

\* mutant of SuccessState: a success never closes the breaker
SuccessState_stuck(st, calls) == st

\* mutant of SuccessState: a success also closes a breaker that is OPEN
SuccessState_open(st, calls) ==
  IF st \in {HALF_OPEN, OPEN} /\ calls >= options.halfOpenMaxCalls
  THEN CLOSED ELSE st

\* onSuccess(): the state after a successful completion
SuccessState(st, calls) ==
  IF st = HALF_OPEN /\ calls >= options.halfOpenMaxCalls THEN CLOSED ELSE st

\* mutant of SuccessFailureCount: closing keeps the count of failures
SuccessFailureCount_kept(st, calls, fc) == fc

\* onSuccess(): failureCount after a successful completion
SuccessFailureCount(st, calls, fc) ==
  IF st = HALF_OPEN /\ calls >= options.halfOpenMaxCalls THEN 0 ELSE fc

\* mutants of FailureState: the threshold must be exceeded; a failure in
\* HALF_OPEN does not reopen
FailureState_late(st, fc) ==
  IF st = HALF_OPEN THEN OPEN
  ELSE IF st = CLOSED /\ fc > options.failureThreshold THEN OPEN
  ELSE st

FailureState_stay(st, fc) ==
  IF st = CLOSED /\ fc >= options.failureThreshold THEN OPEN
  ELSE st

\* onFailure(): the state after a failed completion; fc is the incremented count
FailureState(st, fc) ==
  IF st = HALF_OPEN THEN OPEN
  ELSE IF st = CLOSED /\ fc >= options.failureThreshold THEN OPEN
  ELSE st

BreakerInitWith(opts) ==
  /\ state = CLOSED
  /\ failureCount = 0
  /\ successCount = 0
  /\ lastFailureTime = NoTime
  /\ lastSuccessTime = NoTime
  /\ totalCalls = 0
  /\ halfOpenCalls = 0
  /\ options = opts
  /\ now = 0
  /\ pending = [k \in Kinds |-> 0]
  /\ last = Step("new", FALSE, FALSE, NoError)
  /\ hist = NoHistory

BreakerInit == \E opts \in OptionSets : BreakerInitWith(opts)

\* mutant of Execute: the call is counted before the breaker decides
Execute_counting ==
  LET st1    == IF EnterHalfOpen THEN HALF_OPEN ELSE state
      calls1 == IF EnterHalfOpen THEN 0 ELSE halfOpenCalls
      pend1  == IF EnterHalfOpen
                THEN [pending EXCEPT !["other"] = @ + pending["trial"], !["trial"] = 0]
                ELSE pending
      hist1  == IF EnterHalfOpen
                THEN [hist EXCEPT !.probes = 0, !.trialOk = 0]
                ELSE hist
  IN
  IF state = OPEN /\ ~shouldAttemptReset
  THEN /\ last' = Step("execute", FALSE, FALSE, OpenError)
       /\ hist' = [hist EXCEPT !.rejected = TRUE]
       /\ totalCalls < MaxCalls
       /\ totalCalls' = totalCalls + 1
       /\ UNCHANGED <<state, failureCount, successCount, lastFailureTime,
                      lastSuccessTime, halfOpenCalls, options, now, pending>>
  ELSE IF HalfOpenLimitReached(st1, calls1)
  THEN /\ state' = st1
       /\ halfOpenCalls' = calls1
       /\ pending' = pend1
       /\ last' = Step("execute", FALSE, EnterHalfOpen, HalfOpenError)
       /\ hist' = [hist1 EXCEPT !.rejected = TRUE]
       /\ totalCalls < MaxCalls
       /\ totalCalls' = totalCalls + 1
       /\ UNCHANGED <<failureCount, successCount, lastFailureTime,
                      lastSuccessTime, options, now>>
  ELSE /\ totalCalls < MaxCalls
       /\ PendingTotal < MaxPending
       /\ state' = st1
       /\ totalCalls' = totalCalls + 1
       /\ halfOpenCalls' = IF st1 = HALF_OPEN THEN calls1 + 1 ELSE calls1
       /\ pending' = IF st1 = HALF_OPEN
                     THEN [pend1 EXCEPT !["trial"] = @ + 1]
                     ELSE [pend1 EXCEPT !["other"] = @ + 1]
       /\ last' = Step("execute", TRUE, EnterHalfOpen, NoError)
       /\ hist' = IF st1 = HALF_OPEN
                  THEN [hist1 EXCEPT !.probes = @ + 1]
                  ELSE hist1
       /\ UNCHANGED <<failureCount, successCount, lastFailureTime,
                      lastSuccessTime, options, now>>

\* execute() up to the await: reject, or admit the call and start the operation
Execute ==
  LET st1    == IF EnterHalfOpen THEN HALF_OPEN ELSE state
      calls1 == IF EnterHalfOpen THEN 0 ELSE halfOpenCalls
      pend1  == IF EnterHalfOpen
                THEN [pending EXCEPT !["other"] = @ + pending["trial"], !["trial"] = 0]
                ELSE pending
      hist1  == IF EnterHalfOpen
                THEN [hist EXCEPT !.probes = 0, !.trialOk = 0]
                ELSE hist
  IN
  IF state = OPEN /\ ~shouldAttemptReset
  THEN /\ last' = Step("execute", FALSE, FALSE, OpenError)
       /\ hist' = [hist EXCEPT !.rejected = TRUE]
       /\ UNCHANGED <<state, failureCount, successCount, lastFailureTime,
                      lastSuccessTime, totalCalls, halfOpenCalls, options,
                      now, pending>>
  ELSE IF HalfOpenLimitReached(st1, calls1)
  THEN /\ state' = st1
       /\ halfOpenCalls' = calls1
       /\ pending' = pend1
       /\ last' = Step("execute", FALSE, EnterHalfOpen, HalfOpenError)
       /\ hist' = [hist1 EXCEPT !.rejected = TRUE]
       /\ UNCHANGED <<failureCount, successCount, lastFailureTime,
                      lastSuccessTime, totalCalls, options, now>>
  ELSE /\ totalCalls < MaxCalls
       /\ PendingTotal < MaxPending
       /\ state' = st1
       /\ totalCalls' = totalCalls + 1
       /\ halfOpenCalls' = IF st1 = HALF_OPEN THEN calls1 + 1 ELSE calls1
       /\ pending' = IF st1 = HALF_OPEN
                     THEN [pend1 EXCEPT !["trial"] = @ + 1]
                     ELSE [pend1 EXCEPT !["other"] = @ + 1]
       /\ last' = Step("execute", TRUE, EnterHalfOpen, NoError)
       /\ hist' = IF st1 = HALF_OPEN
                  THEN [hist1 EXCEPT !.probes = @ + 1]
                  ELSE hist1
       /\ UNCHANGED <<failureCount, successCount, lastFailureTime,
                      lastSuccessTime, options, now>>

\* the awaited operation of a pending call resolves: onSuccess()
onSuccess(k) ==
  /\ pending[k] > 0
  /\ pending' = [pending EXCEPT ![k] = @ - 1]
  /\ successCount' = successCount + 1
  /\ lastSuccessTime' = now
  /\ state' = SuccessState(state, halfOpenCalls)
  /\ failureCount' = SuccessFailureCount(state, halfOpenCalls, failureCount)
  /\ last' = Step("success", FALSE, FALSE, NoError)
  /\ hist' = IF k = "trial" /\ state = HALF_OPEN
             THEN [hist EXCEPT !.trialOk = @ + 1]
             ELSE hist
  /\ UNCHANGED <<lastFailureTime, totalCalls, halfOpenCalls, options, now>>

\* the awaited operation of a pending call rejects: onFailure()
onFailure(k) ==
  /\ pending[k] > 0
  /\ pending' = [pending EXCEPT ![k] = @ - 1]
  /\ failureCount' = failureCount + 1
  /\ lastFailureTime' = now
  /\ state' = FailureState(state, failureCount + 1)
  /\ last' = Step("failure", FALSE, FALSE, NoError)
  /\ hist' = [hist EXCEPT !.failed = @ + 1,
                          !.opened = @ \/ FailureState(state, failureCount + 1) = OPEN,
                          !.hoFailAt = IF state = HALF_OPEN THEN now ELSE @]
  /\ UNCHANGED <<successCount, lastSuccessTime, totalCalls, halfOpenCalls,
                 options, now>>

\* reset(): the administrative reset; pending operations keep running
Reset ==
  /\ state' = CLOSED
  /\ failureCount' = 0
  /\ successCount' = 0
  /\ totalCalls' = 0
  /\ halfOpenCalls' = 0
  /\ lastFailureTime' = NoTime
  /\ lastSuccessTime' = NoTime
  /\ last' = Step("reset", FALSE, FALSE, NoError)
  /\ hist' = NoHistory
  /\ UNCHANGED <<options, now, pending>>

\* the wall clock advances by one unit
Advance ==
  /\ now' = now + 1
  /\ last' = Step("tick", FALSE, FALSE, NoError)
  /\ UNCHANGED <<state, failureCount, successCount, lastFailureTime,
                 lastSuccessTime, totalCalls, halfOpenCalls, options,
                 pending, hist>>

\* time passes, at any moment
Tick == now < MaxTime /\ Advance

\* time passes while the OPEN breaker is waiting for its recovery timeout
TickWaiting ==
  /\ state = OPEN
  /\ now - lastFailureTime < options.recoveryTimeout
  /\ Advance

(* --------------------------- retry executor ---------------------------- *)
\* largest maxAttempts tried
MaxAttemptsBound == 4

\* error classes of shared/errors.ts an operation throws, and a plain Error
Classes == {"AnalysisError", "GitHubAPIError", "ConfigurationError", "Error"}

\* instanceof AILintError
IsAILintError(class) == class # "Error"

\* GitHubAPIError objects whose statusCode is 401 or 404, RuleLoadError
\* objects by their cause, and all the errors a GitHub operation throws
Unauthorized == {"GitHubAPIError 401", "GitHubAPIError 404"}
RuleLoadErrors ==
  {"RuleLoadError", "RuleLoadError by GitHubAPIError",
   "RuleLoadError by GitHubAPIError 401",
   "RuleLoadError by GitHubAPIError 404"}
GitHubClasses == Classes \cup Unauthorized \cup RuleLoadErrors

\* the retryable field: the one the class declares, or for a RuleLoadError
\* the one its constructor computes from the cause
Retryable(class) ==
  IF class \in RuleLoadErrors
  THEN class \notin {"RuleLoadError by GitHubAPIError 401",
                     "RuleLoadError by GitHubAPIError 404"}
  ELSE class \in {"AnalysisError", "GitHubAPIError"} \cup Unauthorized

\* the error thrown, and the value returned, by invocation number n
Thrown(class, n) == [threw |-> TRUE, class |-> class, no |-> n]
Returned(n) == [threw |-> FALSE, class |-> "none", no |-> n]
NoErr == [threw |-> FALSE, class |-> "undefined", no |-> 0]
NoOutcome == [success |-> FALSE, attempts |-> -1]

\* a caller's retryCondition: none given, or a test `error instanceof C`
\* for the classes C of a set
NotGiven == [given |-> FALSE, classes |-> {}]
Conditions == {NotGiven} \cup [given : {TRUE}, classes : SUBSET Classes]

\* the backoff settings tried, in milliseconds
BaseDelays == {0, 100}
MaxDelays == {300, 10000}
Multipliers == {1, 2}
\* the values of Math.random() tried, in hundredths
Randoms == {0, 50, 98}

RetryOptionSets ==
  [maxAttempts : 0..MaxAttemptsBound, baseDelay : BaseDelays,
   maxDelay : MaxDelays, backoffMultiplier : Multipliers,
   jitter : BOOLEAN, retryCondition : Conditions]

\* RetryManager.defaultOptions
DefaultRetryOptions ==
  [maxAttempts |-> 3, baseDelay |-> 1000, maxDelay |-> 10000,
   backoffMultiplier |-> 2, jitter |-> TRUE, retryCondition |-> NotGiven]

\* Math.pow, Math.min and Math.max on the integers
RECURSIVE Pow(_, _)
Pow(b, n) == IF n <= 0 THEN 1 ELSE b * Pow(b, n - 1)
Min(a, b) == IF a <= b THEN a ELSE b
Max(a, b) == IF a >= b THEN a ELSE b

\* mutant of exponentialDelay: the exponent is the attempt number
exponentialDelay_next(n, opts) ==
  Min(opts.baseDelay * Pow(opts.backoffMultiplier, n), opts.maxDelay)

\* the capped exponential delay after failed attempt n
exponentialDelay(n, opts) ==
  Min(opts.baseDelay * Pow(opts.backoffMultiplier, n - 1), opts.maxDelay)

\* calculateDelay, where Math.random() returns r / 100.  jitterRange is
\* exponentialDelay * 0.25 and jitter is (random - 0.5) * 2 * jitterRange,
\* that is (r - 50) * exponentialDelay / 200: a whole number for the
\* settings and random values above
calculateDelay(n, opts, r) ==
  LET d == exponentialDelay(n, opts)
      jitter == ((r - 50) * d) \div 200
  IN IF opts.jitter THEN Max(0, d + jitter) ELSE d

\* mutant of DefaultRetryCondition: every classified error is retried
DefaultRetryCondition_all(e) == IsAILintError(e.class)

\* defaultOptions.retryCondition
DefaultRetryCondition(e) ==
  IF IsAILintError(e.class) THEN Retryable(e.class) ELSE FALSE

\* mutant of retryGitHubCondition: the status code is not looked at
retryGitHubCondition_flag(class) ==
  IF IsAILintError(class) THEN Retryable(class) ELSE FALSE

\* the retryCondition of retryGitHubOperation
retryGitHubCondition(class) ==
  IF IsAILintError(class)
  THEN IF class \in Unauthorized THEN FALSE
       ELSE IF class \in {"RuleLoadError by GitHubAPIError 401",
                          "RuleLoadError by GitHubAPIError 404"}
       THEN FALSE
       ELSE Retryable(class)
  ELSE FALSE

\* the options retryGitHubOperation passes, merged over the defaults; its
\* predicate is given by the errors it accepts
GitHubRetryOptions ==
  [maxAttempts |-> 5, baseDelay |-> 2000, maxDelay |-> 30000,
   backoffMultiplier |-> 2, jitter |-> TRUE,
   retryCondition |->
     [given |-> TRUE,
      classes |-> {c \in GitHubClasses : retryGitHubCondition(c)}]]

\* config = { ...defaultOptions, ...options }: config.retryCondition(e)
RetryCondition(opts, e) ==
  IF opts.retryCondition.given
  THEN e.class \in opts.retryCondition.classes
  ELSE DefaultRetryCondition(e)

\* mutant of ShouldBreak: the predicate is not consulted on the first attempt
ShouldBreak_keen(opts, n, e) ==
  n = opts.maxAttempts \/ (n > 1 /\ ~RetryCondition(opts, e))

\* the test that leaves the loop after a failed attempt
ShouldBreak(opts, n, e) ==
  n = opts.maxAttempts \/ ~RetryCondition(opts, e)

\* the RetryResult literals
SuccessResult(v, n) == [success |-> TRUE, result |-> v, attempts |-> n]
FailureResult(e, n) == [success |-> FALSE, error |-> e, attempts |-> n]

\* mutant of CaughtError: the first error is kept
CaughtError_first(prev, e) == IF prev.threw THEN prev ELSE e

\* lastError after the catch block has stored the error of this attempt
CaughtError(prev, e) == e

\* how often operation() has been called
Invocations == Len(opLog)

RetryIdleWith(opts) ==
  /\ retryOptions = opts
  /\ rpc = "start"
  /\ attempt = 0
  /\ finalAttempt = 0
  /\ lastError = NoErr
  /\ opLog = <<>>
  /\ delays = <<>>
  /\ outcome = NoOutcome

RetryInit == \E opts \in RetryOptionSets : RetryIdleWith(opts)

\* the loop condition attempt <= maxAttempts, for loop variable n
EnterLoop(n) ==
  IF n <= retryOptions.maxAttempts
  THEN /\ rpc' = "attempt"
       /\ attempt' = n
       /\ outcome' = outcome
  ELSE /\ rpc' = "returned"
       /\ attempt' = n
       /\ outcome' = FailureResult(lastError, finalAttempt)

\* executeWithRetry is called: the loop starts with attempt = 1
Call ==
  /\ rpc = "start"
  /\ EnterLoop(1)
  /\ UNCHANGED <<retryOptions, finalAttempt, lastError, opLog, delays>>

\* the awaited operation() of this attempt resolves
AttemptSucceeds ==
  /\ rpc = "attempt"
  /\ opLog' = Append(opLog, Returned(Invocations + 1))
  /\ finalAttempt' = attempt
  /\ outcome' = SuccessResult(Returned(Invocations + 1), attempt)
  /\ rpc' = "returned"
  /\ UNCHANGED <<retryOptions, attempt, lastError, delays>>

\* the awaited operation() of this attempt throws an error of some class
AttemptFailsWith(classes) ==
  /\ rpc = "attempt"
  /\ \E class \in classes :
       LET e == Thrown(class, Invocations + 1) IN
       /\ opLog' = Append(opLog, e)
       /\ finalAttempt' = attempt
       /\ lastError' = CaughtError(lastError, e)
       /\ IF ShouldBreak(retryOptions, attempt, e)
          THEN /\ rpc' = "returned"
               /\ outcome' = FailureResult(CaughtError(lastError, e), attempt)
               /\ delays' = delays
          ELSE /\ rpc' = "sleeping"
               /\ outcome' = outcome
               /\ \E r \in Randoms :
                    delays' = Append(delays,
                                     calculateDelay(attempt, retryOptions, r))
  /\ UNCHANGED <<retryOptions, attempt>>

AttemptFails == AttemptFailsWith(Classes)

\* the backoff sleep is over: attempt++ and the loop condition
Wake ==
  /\ rpc = "sleeping"
  /\ EnterLoop(attempt + 1)
  /\ UNCHANGED <<retryOptions, finalAttempt, lastError, opLog, delays>>

RetryNext == Call \/ AttemptSucceeds \/ AttemptFails \/ Wake

(* ------------------------------- cache --------------------------------- *)
\* largest value of the clock while the cache is used
MaxCacheTime == 2
\* cap of hits + misses + evictions between two clear() calls
MaxStat == 2

\* cache keys (the empty string is a key like any other) and cached values
Keys == {"", "a", "b"}
Values == {"v1", "v2"}
\* the sets of keys a regular expression can match
Patterns == {{"a"}, {"", "b"}, Keys}
\* the ttl argument of set: undefined (the default TTL applies), or 0 (the
\* entry never expires)
NoTtl == -1
TtlArgs == {NoTtl, 0}

CacheConfigs == [maxSize : 0..2, defaultTtl : 0..1]

\* the null returned by get
Null == [key |-> "null", data |-> "null", timestamp |-> NoTime, ttl |-> 0]
ZeroStats == [hits |-> 0, misses |-> 0, size |-> 0, evictions |-> 0]

VARIABLES
  cacheConfig,    \* the CacheConfig given to the constructor
  cache,          \* the Map key -> entry, as its entries in insertion order
  lru,            \* keys in order of last access, least recent first
  stats,          \* hits, misses, size, evictions
  disk,           \* the entries of the snapshot file, in file order
  loading,        \* the constructor's loadCachesFromDisk() has not run yet
  clast,          \* the latest cache operation and what it returned
  useOrder,       \* history: the stored keys in the order of their latest
                  \* set or get-hit
  live,           \* history: for each key its latest set, unless the key was
                  \* invalidated, evicted for capacity or cleared since
  staleLoaded     \* history: stored keys whose entry the snapshot load
                  \* installed although its TTL had elapsed when it was loaded

cacheVars == <<cacheConfig, cache, lru, stats, disk, loading, clast,
               useOrder, live, staleLoaded>>

\* Map.has, Map.get, Map.set, Map.delete, Map.keys
MapHas(m, k) == \E i \in 1..Len(m) : m[i].key = k
MapGet(m, k) == m[CHOOSE i \in 1..Len(m) : m[i].key = k]
\* mutant of MapSet: the entry of a key that is present is kept
MapSet_keep(m, e) == IF MapHas(m, e.key) THEN m ELSE Append(m, e)

MapSet(m, e) ==
  IF MapHas(m, e.key)
  THEN [i \in 1..Len(m) |-> IF m[i].key = e.key THEN e ELSE m[i]]
  ELSE Append(m, e)
MapDelete(m, k) == SelectSeq(m, LAMBDA x : x.key # k)
MapKeys(m) == {m[i].key : i \in 1..Len(m)}

\* lru.filter(k => k !== key)
Without(l, key) == SelectSeq(l, LAMBDA x : x # key)

\* the cache object: its three fields, and whether the call is stuck in the
\* loop of ensureCapacity
This == [cache |-> cache, lru |-> lru, stats |-> stats, hung |-> FALSE]

moveToFrontOfLru(l, key) == Append(Without(l, key), key)

\* mutant of isExpired: an entry expires as soon as its age reaches its ttl
isExpired_eager(entry, t) == entry.ttl > 0 /\ (t - entry.timestamp >= entry.ttl)

\* isExpired at time t
isExpired(entry, t) == entry.ttl > 0 /\ (t - entry.timestamp > entry.ttl)

\* mutant of invalidate: the removal is counted as a miss
invalidate_counted(o, key) ==
  IF MapHas(o.cache, key)
  THEN [o EXCEPT !.cache = MapDelete(@, key),
                 !.lru = Without(@, key),
                 !.stats.size = @ - 1,
                 !.stats.misses = @ + 1]
  ELSE o

invalidate(o, key) ==
  IF MapHas(o.cache, key)
  THEN [o EXCEPT !.cache = MapDelete(@, key),
                 !.lru = Without(@, key),
                 !.stats.size = @ - 1]
  ELSE o

\* evictLRU(1): lru.shift(), and `if (keyToEvict)` is false for the key ""
evictLRU(o) ==
  IF Len(o.lru) > 0
  THEN IF Head(o.lru) # ""
       THEN [o EXCEPT !.cache = MapDelete(@, Head(o.lru)),
                      !.lru = Tail(@),
                      !.stats.size = @ - 1,
                      !.stats.evictions = @ + 1]
       ELSE [o EXCEPT !.lru = Tail(@)]
  ELSE o

\* ensureCapacity(1): the loop runs while size + 1 > maxSize; once lru is
\* empty evictLRU changes nothing and the loop never ends
RECURSIVE ensureCapacity(_, _)
ensureCapacity(o, cfg) ==
  IF o.stats.size + 1 > cfg.maxSize
  THEN IF Len(o.lru) > 0
       THEN ensureCapacity(evictLRU(o), cfg)
       ELSE [o EXCEPT !.hung = TRUE]
  ELSE o

\* the entry set builds at time t
NewEntry(key, data, ttl, t, cfg) ==
  [key |-> key, data |-> data, timestamp |-> t,
   ttl |-> IF ttl # NoTtl THEN ttl ELSE cfg.defaultTtl]

\* mutant of setEntry: room is made before the key is looked up
setEntry_evicting(o, e, cfg) ==
  LET room == ensureCapacity(o, cfg)
  IN IF room.hung
     THEN room
     ELSE IF MapHas(room.cache, e.key)
     THEN [room EXCEPT !.cache = MapSet(@, e),
                       !.lru = moveToFrontOfLru(@, e.key)]
     ELSE [room EXCEPT !.cache = MapSet(@, e),
                       !.lru = Append(@, e.key),
                       !.stats.size = @ + 1]

\* set, given the entry it built
setEntry(o, e, cfg) ==
  IF MapHas(o.cache, e.key)
  THEN [o EXCEPT !.cache = MapSet(@, e),
                 !.lru = moveToFrontOfLru(@, e.key)]
  ELSE LET room == ensureCapacity(o, cfg)
       IN IF room.hung
          THEN room
          ELSE [room EXCEPT !.cache = MapSet(@, e),
                            !.lru = Append(@, e.key),
                            !.stats.size = @ + 1]

\* the loop of loadCachesFromDisk: set(key, value.data, value.ttl, ...) for
\* every entry of the parsed file, at time t
RECURSIVE loadEntries(_, _, _, _)
loadEntries(o, entries, t, cfg) ==
  IF entries = <<>> \/ o.hung
  THEN o
  ELSE LET v == Head(entries)
       IN loadEntries(setEntry(o, NewEntry(v.key, v.data, v.ttl, t, cfg), cfg),
                      Tail(entries), t, cfg)

\* history helpers
NoWrite == [present |-> FALSE, data |-> "none", at |-> NoTime, ttl |-> 0]
WriteOf(e) == [present |-> TRUE, data |-> e.data, at |-> e.timestamp, ttl |-> e.ttl]
UseNow(u, key) == Append(SelectSeq(u, LAMBDA x : x # key), key)
RECURSIVE UseAll(_, _)
UseAll(u, entries) ==
  IF entries = <<>> THEN u
  ELSE UseAll(UseNow(u, Head(entries).key), Tail(entries))
Stored(u, o) == SelectSeq(u, LAMBDA x : MapHas(o.cache, x))
\* the latest sets, without those of the keys an operation removed from m
Dropped(m, o) == MapKeys(m) \ MapKeys(o.cache)
Forget(l, gone) == [k \in Keys |-> IF k \in gone THEN NoWrite ELSE l[k]]

CacheOp(op, key, result) == [op |-> op, key |-> key, result |-> result]

\* a set call never returned: the thread is stuck in ensureCapacity
Hung == clast.op = "hang"

\* the statistics counters stay within their cap
Within(o) == o.stats.hits + o.stats.misses + o.stats.evictions <= MaxStat

\* the fields of the cache object after an operation
Becomes(o) ==
  /\ cache' = o.cache
  /\ lru' = o.lru
  /\ stats' = o.stats

CacheInitWith(cfg) ==
  /\ cacheConfig = cfg
  /\ cache = <<>>
  /\ lru = <<>>
  /\ stats = ZeroStats
  /\ disk = <<>>
  /\ loading = FALSE
  /\ clast = CacheOp("new", "", Null)
  /\ useOrder = <<>>
  /\ live = [k \in Keys |-> NoWrite]
  /\ staleLoaded = {}

CacheInit == \E cfg \in CacheConfigs : CacheInitWith(cfg)

\* set(key, data, ttl)
set ==
  /\ ~Hung
  /\ \E key \in Keys, data \in Values, ttl \in TtlArgs :
       LET e == NewEntry(key, data, ttl, now, cacheConfig)
           o == setEntry(This, e, cacheConfig)
       IN /\ Within(o)
          /\ Becomes(o)
          /\ clast' = CacheOp(IF o.hung THEN "hang" ELSE "set", key, Null)
          /\ useOrder' = IF o.hung THEN Stored(useOrder, o)
                         ELSE Stored(UseNow(useOrder, key), o)
          /\ live' = IF o.hung
                     THEN Forget(live, Dropped(cache, o))
                     ELSE [Forget(live, Dropped(cache, o)) EXCEPT ![key] = WriteOf(e)]
          /\ staleLoaded' = (staleLoaded \ {key}) \cap MapKeys(o.cache)
  /\ UNCHANGED <<cacheConfig, disk, loading>>

\* get(key)
get ==
  /\ ~Hung
  /\ \E key \in Keys :
       LET found == MapHas(cache, key)
           hit == found /\ ~isExpired(MapGet(cache, key), now)
           o == IF ~found
                THEN [This EXCEPT !.stats.misses = @ + 1]
                ELSE IF ~hit
                THEN [invalidate(This, key) EXCEPT !.stats.misses = @ + 1]
                ELSE [This EXCEPT !.stats.hits = @ + 1,
                                  !.lru = moveToFrontOfLru(@, key)]
       IN /\ Within(o)
          /\ Becomes(o)
          /\ clast' = CacheOp("get", key,
                              IF hit THEN MapGet(cache, key) ELSE Null)
          /\ useOrder' = IF hit THEN UseNow(useOrder, key)
                         ELSE Stored(useOrder, o)
          /\ staleLoaded' = staleLoaded \cap MapKeys(o.cache)
  /\ UNCHANGED <<cacheConfig, disk, loading, live>>

\* a caller's invalidate(key)
CallInvalidate ==
  /\ ~Hung
  /\ \E key \in Keys :
       LET o == invalidate(This, key)
       IN /\ Becomes(o)
          /\ clast' = CacheOp("invalidate", key, Null)
          /\ useOrder' = Stored(useOrder, o)
          /\ live' = Forget(live, {key})
          /\ staleLoaded' = staleLoaded \ {key}
  /\ UNCHANGED <<cacheConfig, disk, loading>>

\* invalidatePattern(pattern), for a pattern matching the keys of P
invalidatePattern ==
  /\ ~Hung
  /\ \E P \in Patterns :
       LET o == [This EXCEPT
                   !.cache = SelectSeq(@, LAMBDA x : x.key \notin P),
                   !.lru = SelectSeq(@, LAMBDA x : x \notin P),
                   !.stats.size = @ - Cardinality(MapKeys(cache) \cap P)]
       IN /\ Becomes(o)
          /\ clast' = CacheOp("invalidatePattern", "", Null)
          /\ useOrder' = Stored(useOrder, o)
          /\ live' = Forget(live, P)
          /\ staleLoaded' = staleLoaded \ P
  /\ UNCHANGED <<cacheConfig, disk, loading>>

\* the cleanup timer, which runs only if defaultTtl > 0, fires
performCleanup ==
  /\ ~Hung
  /\ cacheConfig.defaultTtl > 0
  /\ LET gone == {k \in MapKeys(cache) : isExpired(MapGet(cache, k), now)}
         o == [This EXCEPT
                 !.cache = SelectSeq(@, LAMBDA x : x.key \notin gone),
                 !.lru = SelectSeq(@, LAMBDA x : x \notin gone),
                 !.stats.size = @ - Cardinality(gone)]
     IN /\ Becomes(o)
        /\ clast' = CacheOp("performCleanup", "", Null)
        /\ useOrder' = Stored(useOrder, o)
        /\ staleLoaded' = staleLoaded \ gone
  /\ UNCHANGED <<cacheConfig, disk, loading, live>>

\* clear()
clear ==
  /\ ~Hung
  /\ cache' = <<>>
  /\ lru' = <<>>
  /\ stats' = ZeroStats
  /\ clast' = CacheOp("clear", "", Null)
  /\ useOrder' = <<>>
  /\ live' = [k \in Keys |-> NoWrite]
  /\ staleLoaded' = {}
  /\ UNCHANGED <<cacheConfig, disk, loading>>

\* saveCachesToDisk(): the entries of the Map become the snapshot file
saveCachesToDisk ==
  /\ ~Hung
  /\ disk' = cache
  /\ clast' = CacheOp("save", "", Null)
  /\ UNCHANGED <<cacheConfig, cache, lru, stats, loading, useOrder, live,
                 staleLoaded>>

\* the process starts again: the constructor of GitHubApiClient makes a new
\* cache and calls loadCachesFromDisk(), which runs after its first await
Restart ==
  /\ cache' = <<>>
  /\ lru' = <<>>
  /\ stats' = ZeroStats
  /\ loading' = TRUE
  /\ clast' = CacheOp("new", "", Null)
  /\ useOrder' = <<>>
  /\ live' = [k \in Keys |-> NoWrite]
  /\ staleLoaded' = {}
  /\ UNCHANGED <<cacheConfig, disk>>

\* loadCachesFromDisk() reads the file and sets its entries
loadCachesFromDisk ==
  /\ ~Hung
  /\ loading
  /\ LET o == loadEntries(This, disk, now, cacheConfig)
         loaded == MapKeys(disk)
     IN /\ Within(o)
        /\ Becomes(o)
        /\ loading' = FALSE
        /\ clast' = CacheOp(IF o.hung THEN "hang" ELSE "load", "", Null)
        /\ useOrder' = Stored(UseAll(useOrder, disk), o)
        /\ live' = [k \in Keys |->
                      IF k \in loaded
                      THEN IF MapHas(o.cache, k)
                           THEN WriteOf(MapGet(o.cache, k))
                           ELSE NoWrite
                      ELSE Forget(live, Dropped(cache, o))[k]]
        /\ staleLoaded' =
             {k \in MapKeys(o.cache) :
                \/ k \in staleLoaded \ loaded
                \/ k \in loaded /\ MapGet(disk, k).ttl > 0
                                /\ now - MapGet(disk, k).timestamp > MapGet(disk, k).ttl}
  /\ UNCHANGED <<cacheConfig, disk>>

\* time passes
CacheTick ==
  /\ now < MaxCacheTime
  /\ now' = now + 1
  /\ clast' = IF Hung THEN clast ELSE CacheOp("tick", "", Null)
  /\ UNCHANGED <<cacheConfig, cache, lru, stats, disk, loading, useOrder,
                 live, staleLoaded>>

(* ------------------------- graceful degradation ------------------------ *)
\* strategy firings recorded, suspended handleError calls, and largest value
\* of the clock while the degradation manager is used
MaxFirings == 2
MaxHandlers == 2
MaxDegradationTime == 4
\* strategy firings, and largest value of the clock, while the history of the
\* degradation manager fills beyond its cap
MaxHistoryFirings == 60
MaxHistoryTime == 1

\* one unit of the clock, and the constants of the manager, in milliseconds
TimeUnit == 10 * 60 * 1000
StabilityWindow == 30 * 60 * 1000
HistoryCap == 50

ServiceLevel ==
  [FULL |-> "full", DEGRADED |-> "degraded", MINIMAL |-> "minimal",
   EMERGENCY |-> "emergency"]
ErrorSeverity ==
  [LOW |-> "low", MEDIUM |-> "medium", HIGH |-> "high", CRITICAL |-> "critical"]
ErrorCategory ==
  [VALIDATION |-> "validation", ANALYSIS |-> "analysis",
   EXTERNAL_SERVICE |-> "external_service", RESOURCE |-> "resource",
   CONFIGURATION |-> "configuration", NETWORK |-> "network",
   RATE_LIMIT |-> "rate_limit", AUTHENTICATION |-> "authentication"]

\* the values of a record type
Range(r) == {r[f] : f \in DOMAIN r}

\* the AILintError objects handed to handleError: every category, with a
\* severity that is critical or not
Messages == {"API unavailable"}
Errors ==
  [category : Range(ErrorCategory),
   severity : {ErrorSeverity.HIGH, ErrorSeverity.CRITICAL},
   message : Messages]

VARIABLES
  currentServiceLevel, currentServiceStatus, lastDegradation,
  degradationHistory,    \* the private fields of GracefulDegradationManager
  handlers,              \* handleError calls suspended at `await`, oldest first
  dlast,                 \* the latest call that returned, and what it returned
  allFirings             \* every strategy firing since construction, in order

degradationVars == <<currentServiceLevel, currentServiceStatus,
                     lastDegradation, degradationHistory, handlers, dlast,
                     allFirings>>

\* the ServiceStatus literals; a degradationReason is written as the two
\* parts its " - " separates, an undefined one as <<>>, and an undefined
\* estimatedRecovery as NoTime
\* mutant of getInitialFullServiceStatus: the framework analysis is listed as
\* missing
getInitialFullServiceStatus_partial ==
  [level |-> ServiceLevel.FULL,
   availableFeatures |->
     <<"Complete code analysis", "All rule sets (universal + GitHub)",
       "Advanced metrics calculation", "Educational explanations",
       "Detailed suggestions">>,
   unavailableFeatures |-> <<"Framework-specific analysis">>,
   degradationReason |-> <<>>,
   estimatedRecovery |-> NoTime]

getInitialFullServiceStatus ==
  [level |-> ServiceLevel.FULL,
   availableFeatures |->
     <<"Complete code analysis", "All rule sets (universal + GitHub)",
       "Advanced metrics calculation", "Educational explanations",
       "Detailed suggestions", "Framework-specific analysis">>,
   unavailableFeatures |-> <<>>,
   degradationReason |-> <<>>,
   estimatedRecovery |-> NoTime]

fallbackToLocalRules(t) ==
  [level |-> ServiceLevel.DEGRADED,
   availableFeatures |->
     <<"Universal rules analysis", "Basic code metrics", "Syntax validation",
       "Local rule application">>,
   unavailableFeatures |->
     <<"Framework-specific rules (React, Vue, etc.)",
       "Principle-based rules (SOLID, DDD)", "Community-contributed rules",
       "Rule updates from GitHub">>,
   degradationReason |-> <<"GitHub API unavailable", "using local rules only">>,
   estimatedRecovery |-> t + (30 * 60 * 1000) \div TimeUnit]

simplifyAnalysis(t) ==
  [level |-> ServiceLevel.DEGRADED,
   availableFeatures |->
     <<"Basic syntax validation", "Core security rules",
       "Simple metrics calculation", "Essential quality checks">>,
   unavailableFeatures |->
     <<"Complex pattern analysis", "Advanced metrics calculation",
       "Comprehensive rule evaluation", "Deep code structure analysis">>,
   degradationReason |-> <<"Resource constraints", "simplified analysis mode">>,
   estimatedRecovery |-> t + (10 * 60 * 1000) \div TimeUnit]

enableCacheOnlyMode(t) ==
  [level |-> ServiceLevel.MINIMAL,
   availableFeatures |->
     <<"Cached rule analysis", "Previously downloaded rules",
       "Local rule validation", "Basic error reporting">>,
   unavailableFeatures |->
     <<"Real-time rule updates", "GitHub rule fetching",
       "Dynamic rule loading", "External service integration">>,
   degradationReason |-> <<"Network connectivity issues", "cache-only mode">>,
   estimatedRecovery |-> t + (60 * 60 * 1000) \div TimeUnit]

\* mutant of enableMinimalAnalysis: recovery is expected within the hour
enableMinimalAnalysis_timed(t) ==
  [level |-> ServiceLevel.EMERGENCY,
   availableFeatures |->
     <<"Syntax validation only", "Critical error detection",
       "Basic response generation">>,
   unavailableFeatures |->
     <<"Rule-based analysis", "Code metrics calculation", "Quality scoring",
       "Detailed suggestions", "Educational explanations">>,
   degradationReason |-> <<"Critical system issues", "emergency mode only">>,
   estimatedRecovery |-> t + (60 * 60 * 1000) \div TimeUnit]

enableMinimalAnalysis(t) ==
  [level |-> ServiceLevel.EMERGENCY,
   availableFeatures |->
     <<"Syntax validation only", "Critical error detection",
       "Basic response generation">>,
   unavailableFeatures |->
     <<"Rule-based analysis", "Code metrics calculation", "Quality scoring",
       "Detailed suggestions", "Educational explanations">>,
   degradationReason |-> <<"Critical system issues", "emergency mode only">>,
   estimatedRecovery |-> NoTime]

\* mutant of strategies: the severity test comes last
strategies_late ==
  <<"github-api-fallback", "analysis-simplification", "cache-only-mode",
    "minimal-analysis">>

\* the names of the strategies, in the order of the array
strategies ==
  <<"minimal-analysis", "github-api-fallback", "analysis-simplification",
    "cache-only-mode">>

\* mutant of condition: rate limiting also switches to the cache
condition_wide(name, error) ==
  CASE name = "minimal-analysis" -> error.severity = ErrorSeverity.CRITICAL
    [] name = "github-api-fallback" ->
         error.category = ErrorCategory.EXTERNAL_SERVICE
    [] name = "analysis-simplification" ->
         error.category = ErrorCategory.RESOURCE
    [] name = "cache-only-mode" ->
         error.category \in {ErrorCategory.NETWORK, ErrorCategory.RATE_LIMIT}

\* strategy.condition(error) and the status strategy.action() builds at time t
condition(name, error) ==
  CASE name = "minimal-analysis" -> error.severity = ErrorSeverity.CRITICAL
    [] name = "github-api-fallback" ->
         error.category = ErrorCategory.EXTERNAL_SERVICE
    [] name = "analysis-simplification" ->
         error.category = ErrorCategory.RESOURCE
    [] name = "cache-only-mode" -> error.category = ErrorCategory.NETWORK

\* mutant of action: at EMERGENCY every strategy keeps the emergency mode
action_worst(name, t) ==
  IF currentServiceLevel = ServiceLevel.EMERGENCY
  THEN enableMinimalAnalysis(t)
  ELSE CASE name = "minimal-analysis" -> enableMinimalAnalysis(t)
         [] name = "github-api-fallback" -> fallbackToLocalRules(t)
         [] name = "analysis-simplification" -> simplifyAnalysis(t)
         [] name = "cache-only-mode" -> enableCacheOnlyMode(t)

action(name, t) ==
  CASE name = "minimal-analysis" -> enableMinimalAnalysis(t)
    [] name = "github-api-fallback" -> fallbackToLocalRules(t)
    [] name = "analysis-simplification" -> simplifyAnalysis(t)
    [] name = "cache-only-mode" -> enableCacheOnlyMode(t)

\* strategies.find(s => s.condition(error)): its index, 0 when undefined
find(error) ==
  LET hits == {i \in 1..Len(strategies) : condition(strategies[i], error)}
  IN IF hits = {} THEN 0
     ELSE CHOOSE i \in hits : \A j \in hits : i <= j

\* mutant of recordDegradation: the slice keeps the oldest 50 events
recordDegradation_oldest(strategy, reason, t) ==
  LET pushed == Append(degradationHistory,
                       [timestamp |-> t, level |-> currentServiceLevel,
                        reason |-> <<strategy, reason>>])
  IN IF Len(pushed) > HistoryCap THEN SubSeq(pushed, 1, HistoryCap)
     ELSE pushed

\* degradationHistory after recordDegradation(strategy, reason) at time t
recordDegradation(strategy, reason, t) ==
  LET pushed == Append(degradationHistory,
                       [timestamp |-> t, level |-> currentServiceLevel,
                        reason |-> <<strategy, reason>>])
  IN IF Len(pushed) > HistoryCap
     THEN SubSeq(pushed, Len(pushed) - HistoryCap + 1, Len(pushed))
     ELSE pushed

\* mutant of StabilityPassed: the window ends after exactly 30 minutes
StabilityPassed_early(since) == since * TimeUnit >= StabilityWindow

\* timeSinceLastDegradation > 30 * 60 * 1000, for a time in clock units
StabilityPassed(since) == since * TimeUnit > StabilityWindow

NoAILintError == [category |-> "none", severity |-> "none", message |-> "none"]
\* `behind` is the number of handleError calls that were suspended when the
\* call that returned had fired its strategy
DegradationOp(op, error, fired, status, ok) ==
  [op |-> op, error |-> error, fired |-> fired, status |-> status, ok |-> ok,
   behind |-> 0]

DegradationInit ==
  /\ currentServiceLevel = ServiceLevel.FULL
  /\ currentServiceStatus = getInitialFullServiceStatus
  /\ lastDegradation = NoTime
  /\ degradationHistory = <<>>
  /\ handlers = <<>>
  /\ allFirings = <<>>
  /\ dlast = DegradationOp("new", NoAILintError, "none",
                           getInitialFullServiceStatus, FALSE)

\* handleError(error) up to its return or, when a strategy matches, up to
\* `await strategy.action()`: the event is recorded, then the action sets
\* the level and builds its status; at most `firings` strategies fire
handleErrorOn(error, firings) ==
    LET i == find(error) IN
    IF i = 0
    THEN /\ dlast' = DegradationOp("handleError", error, "none",
                                   currentServiceStatus, FALSE)
         /\ UNCHANGED <<currentServiceLevel, currentServiceStatus,
                        lastDegradation, degradationHistory, handlers,
                        allFirings>>
    ELSE /\ Len(allFirings) < firings
         /\ Len(handlers) < MaxHandlers
         /\ lastDegradation' = now
         /\ degradationHistory' =
              recordDegradation(strategies[i], error.message, now)
         /\ allFirings' = Append(allFirings,
                                 [timestamp |-> now,
                                  level |-> currentServiceLevel,
                                  reason |-> <<strategies[i], error.message>>])
         /\ currentServiceLevel' = action(strategies[i], now).level
         /\ handlers' = Append(handlers,
                               [error |-> error, fired |-> strategies[i],
                                status |-> action(strategies[i], now),
                                behind |-> Len(handlers)])
         /\ dlast' = DegradationOp("await", error, strategies[i],
                                   currentServiceStatus, FALSE)
         /\ UNCHANGED currentServiceStatus

handleError == \E error \in Errors : handleErrorOn(error, MaxFirings)

\* handleError on a GitHubAPIError, called often enough to overflow the
\* history
GitHubAPIErrors ==
  [category : {ErrorCategory.EXTERNAL_SERVICE},
   severity : {ErrorSeverity.MEDIUM}, message : Messages]
handleErrorOften ==
  \E error \in GitHubAPIErrors : handleErrorOn(error, MaxHistoryFirings)

\* mutant of handleErrorResumes: the call suspended last resumes first
handleErrorResumes_newest ==
  /\ handlers # <<>>
  /\ LET newest == handlers[Len(handlers)] IN
     /\ currentServiceStatus' = newest.status
     /\ currentServiceLevel' = newest.status.level
     /\ handlers' = SubSeq(handlers, 1, Len(handlers) - 1)
     /\ dlast' = [DegradationOp("handleError", newest.error, newest.fired,
                                newest.status, FALSE)
                    EXCEPT !.behind = newest.behind]
  /\ UNCHANGED <<lastDegradation, degradationHistory, allFirings>>

\* the oldest suspended handleError call resumes after its await, installs
\* the status and returns it
handleErrorResumes ==
  /\ handlers # <<>>
  /\ currentServiceStatus' = Head(handlers).status
  /\ currentServiceLevel' = Head(handlers).status.level
  /\ handlers' = Tail(handlers)
  /\ dlast' = [DegradationOp("handleError", Head(handlers).error,
                             Head(handlers).fired, Head(handlers).status,
                             FALSE)
                 EXCEPT !.behind = Head(handlers).behind]
  /\ UNCHANGED <<lastDegradation, degradationHistory, allFirings>>

\* attemptRecovery(); an undefined lastDegradation counts as Infinity
attemptRecovery ==
  /\ IF currentServiceLevel = ServiceLevel.FULL
     THEN /\ dlast' = DegradationOp("attemptRecovery", NoAILintError, "none",
                                    currentServiceStatus, TRUE)
          /\ UNCHANGED currentServiceLevel
     ELSE IF lastDegradation = NoTime \/ StabilityPassed(now - lastDegradation)
     THEN /\ currentServiceLevel' = ServiceLevel.FULL
          /\ dlast' = DegradationOp("attemptRecovery", NoAILintError, "none",
                                    currentServiceStatus, TRUE)
     ELSE /\ dlast' = DegradationOp("attemptRecovery", NoAILintError, "none",
                                    currentServiceStatus, FALSE)
          /\ UNCHANGED currentServiceLevel
  /\ UNCHANGED <<currentServiceStatus, lastDegradation, degradationHistory,
                 handlers, allFirings>>

\* time passes
DegradationTick ==
  /\ now < MaxDegradationTime
  /\ now' = now + 1
  /\ dlast' = [dlast EXCEPT !.op = "tick"]
  /\ UNCHANGED <<currentServiceLevel, currentServiceStatus, lastDegradation,
                 degradationHistory, handlers, allFirings>>

(* ------------------------- the breaker registry ------------------------- *)
\* calls admitted by one breaker between two resets, calls of one breaker in
\* flight, and largest value of the clock while the registry is used
MaxRegistryCalls == 2
MaxRegistryPending == 1
MaxRegistryTime == 2

\* the names breakers are asked for, and the options passed along
BreakerNames == {"github-api", "rule-engine"}
RegistryOptionSets ==
  [failureThreshold : 1..2, recoveryTimeout : {1}, halfOpenMaxCalls : {1}]

VARIABLES
  breakers,   \* CircuitBreakerManager.breakers: the CircuitBreaker objects by
              \* name, each with the number of its admitted calls in flight
  rlast       \* the latest call on the registry, the name it was for and
              \* the options it passed

registryVars == <<breakers, rlast>>

\* the call passed no options
NoOptions ==
  [failureThreshold |-> 0, recoveryTimeout |-> 0, halfOpenMaxCalls |-> 0]

\* new CircuitBreaker(name, options)
newCircuitBreaker(opts) ==
  [state |-> CLOSED, failureCount |-> 0, successCount |-> 0,
   lastFailureTime |-> NoTime, lastSuccessTime |-> NoTime, totalCalls |-> 0,
   halfOpenCalls |-> 0, options |-> opts, pending |-> 0]

\* mutant of getBreaker: every reference builds a new breaker
getBreaker_fresh(reg, name, opts) ==
  [n \in DOMAIN reg \cup {name} |->
     IF n = name THEN newCircuitBreaker(opts) ELSE reg[n]]

\* mutant of getBreaker: the options of the latest reference are installed
getBreaker_latest(reg, name, opts) ==
  IF name \in DOMAIN reg THEN [reg EXCEPT ![name].options = opts]
  ELSE [n \in DOMAIN reg \cup {name} |->
          IF n = name THEN newCircuitBreaker(opts) ELSE reg[n]]

\* the registry after getBreaker(name, options)
getBreaker(reg, name, opts) ==
  IF name \in DOMAIN reg THEN reg
  ELSE [n \in DOMAIN reg \cup {name} |->
          IF n = name THEN newCircuitBreaker(opts) ELSE reg[n]]

\* execute() of breaker b at time t, up to the await or the throw
executeOn(b, t) ==
  LET elapsed == /\ b.lastFailureTime # NoTime
                 /\ t - b.lastFailureTime >= b.options.recoveryTimeout
      b1 == IF b.state = OPEN /\ elapsed
            THEN [b EXCEPT !.state = HALF_OPEN, !.halfOpenCalls = 0]
            ELSE b
  IN IF b.state = OPEN /\ ~elapsed
     THEN [breaker |-> b, admitted |-> FALSE]
     ELSE IF /\ b1.state = HALF_OPEN
             /\ b1.halfOpenCalls >= b1.options.halfOpenMaxCalls
     THEN [breaker |-> b1, admitted |-> FALSE]
     ELSE [breaker |->
             [b1 EXCEPT !.totalCalls = @ + 1,
                        !.halfOpenCalls =
                           IF b1.state = HALF_OPEN THEN @ + 1 ELSE @,
                        !.pending = @ + 1],
           admitted |-> TRUE]

\* onSuccess() (ok) or onFailure() of breaker b at time t, when the awaited
\* operation of one of its calls settles
settleOn(b, ok, t) ==
  IF ok
  THEN LET closes == /\ b.state = HALF_OPEN
                     /\ b.halfOpenCalls >= b.options.halfOpenMaxCalls
       IN [b EXCEPT !.pending = @ - 1,
                    !.successCount = @ + 1,
                    !.lastSuccessTime = t,
                    !.state = IF closes THEN CLOSED ELSE @,
                    !.failureCount = IF closes THEN 0 ELSE @]
  ELSE [b EXCEPT !.pending = @ - 1,
                 !.failureCount = @ + 1,
                 !.lastFailureTime = t,
                 !.state =
                    IF @ = HALF_OPEN THEN OPEN
                    ELSE IF /\ @ = CLOSED
                            /\ b.failureCount + 1 >= b.options.failureThreshold
                    THEN OPEN
                    ELSE @]

\* mutant of resetOf: the success counter survives
resetOf_partial(b) ==
  [b EXCEPT !.state = CLOSED, !.failureCount = 0, !.totalCalls = 0,
            !.halfOpenCalls = 0, !.lastFailureTime = NoTime,
            !.lastSuccessTime = NoTime]

\* reset() of breaker b
resetOf(b) ==
  [b EXCEPT !.state = CLOSED, !.failureCount = 0, !.successCount = 0,
            !.totalCalls = 0, !.halfOpenCalls = 0,
            !.lastFailureTime = NoTime, !.lastSuccessTime = NoTime]

RegistryInit ==
  /\ breakers = <<>>
  /\ rlast = [op |-> "new", name |-> "none", admitted |-> FALSE,
              options |-> NoOptions]

\* executeWithBreaker(name, operation, options) up to the await or the throw
\* of execute()
executeWithBreaker ==
  \E name \in BreakerNames, opts \in RegistryOptionSets :
    LET reg == getBreaker(breakers, name, opts)
        run == executeOn(reg[name], now)
    IN /\ run.admitted =>
            /\ reg[name].totalCalls < MaxRegistryCalls
            /\ reg[name].pending < MaxRegistryPending
       /\ breakers' = [reg EXCEPT ![name] = run.breaker]
       /\ rlast' = [op |-> "executeWithBreaker", name |-> name,
                    admitted |-> run.admitted, options |-> opts]

\* the operation of an admitted call of some breaker resolves or rejects
operationSettles ==
  \E name \in DOMAIN breakers, ok \in BOOLEAN :
    /\ breakers[name].pending > 0
    /\ breakers' = [breakers EXCEPT ![name] = settleOn(@, ok, now)]
    /\ rlast' = [op |-> "settle", name |-> name, admitted |-> FALSE,
                 options |-> NoOptions]

\* resetAll()
resetAll ==
  /\ breakers' = [n \in DOMAIN breakers |-> resetOf(breakers[n])]
  /\ rlast' = [op |-> "resetAll", name |-> "none", admitted |-> FALSE,
               options |-> NoOptions]

RegistryTick ==
  /\ now < MaxRegistryTime
  /\ now' = now + 1
  /\ rlast' = [op |-> "tick", name |-> "none", admitted |-> FALSE,
               options |-> NoOptions]
  /\ UNCHANGED breakers

(* ------------------------ analyze-code requests ------------------------- *)
\* strategy firings while analyze-code requests are served
MaxAnalyzeFirings == 4

\* the options loadRulesWithFallback passes for the breaker 'rule-loading',
\* in milliseconds
RuleLoadingOptions ==
  [failureThreshold |-> 3, recoveryTimeout |-> 30000, halfOpenMaxCalls |-> 3]

VARIABLES
  analysis,      \* the analyze-code request being served: where it stands,
                 \* the error loadRulesWithFallback caught, how many errors it
                 \* handed to the analyzer's degradation manager, and the
                 \* rules it analyzes with
  response,      \* what the CallTool handler returned for the latest request
  serverStatus   \* currentServiceStatus of the degradationManager instance of
                 \* the server module; the variables of the degradation
                 \* section are the instance the CodeAnalyzer constructs

analyzeVars == <<analysis, response, serverStatus>>

NoRequest == [pc |-> "idle", caught |-> "none", handed |-> 0, rules |-> "none"]
NoResponse ==
  [isError |-> FALSE, rules |-> "none", level |-> "none", note |-> <<>>]

AnalyzeInit ==
  /\ analysis = NoRequest
  /\ response = NoResponse
  /\ serverStatus = getInitialFullServiceStatus

\* the RuleLoadError handed to handleError: the error caught when it is an
\* AILintError (loadRules throws only RuleLoadError), a new one otherwise
RuleLoadError ==
  [category |-> ErrorCategory.RESOURCE, severity |-> ErrorSeverity.LOW,
   message |-> "API unavailable"]

\* an analyze-code request arrives: analyze() calls loadRulesWithFallback,
\* which calls executeWithBreaker('rule-loading', ...); execute() rejects
\* with a plain Error or invokes the operation, a call of executeWithRetry
\* with the default options
analyzeCode ==
  /\ analysis.pc = "idle"
  /\ Execute
  /\ retryOptions' = DefaultRetryOptions
  /\ rpc' = "start"
  /\ attempt' = 0
  /\ finalAttempt' = 0
  /\ lastError' = NoErr
  /\ opLog' = <<>>
  /\ delays' = <<>>
  /\ outcome' = NoOutcome
  /\ analysis' = IF last'.invoked
                 THEN [NoRequest EXCEPT !.pc = "loading"]
                 ELSE [NoRequest EXCEPT !.pc = "caught", !.caught = "Error"]
  /\ UNCHANGED <<response, serverStatus>>

\* the retry loop around ruleEngine.loadRules runs
loadRules ==
  /\ analysis.pc = "loading"
  /\ Call \/ AttemptSucceeds \/ AttemptFailsWith(RuleLoadErrors) \/ Wake
  /\ UNCHANGED analyzeVars

\* mutant of ruleLoadSettles: the breaker counts every failed attempt
ruleLoadSettles_attempts ==
  /\ analysis.pc = "loading"
  /\ rpc = "returned"
  /\ \E k \in Kinds :
       IF outcome.success
       THEN /\ onSuccess(k)
            /\ analysis' = [analysis EXCEPT !.pc = "analysis",
                                            !.rules = "loaded"]
       ELSE /\ pending[k] > 0
            /\ pending' = [pending EXCEPT ![k] = @ - 1]
            /\ failureCount' = failureCount + Len(opLog)
            /\ lastFailureTime' = now
            /\ state' = FailureState(state, failureCount + Len(opLog))
            /\ last' = Step("failure", FALSE, FALSE, NoError)
            /\ hist' = [hist EXCEPT !.failed = @ + 1]
            /\ UNCHANGED <<successCount, lastSuccessTime, totalCalls,
                           halfOpenCalls, options, now>>
            /\ analysis' = [analysis EXCEPT !.pc = "caught",
                                            !.caught = outcome.error.class]
  /\ UNCHANGED <<response, serverStatus>>

\* executeWithRetry has returned: `.then` returns the rules or throws
\* result.error, and execute() records the success or the failure
ruleLoadSettles ==
  /\ analysis.pc = "loading"
  /\ rpc = "returned"
  /\ \E k \in Kinds :
       IF outcome.success
       THEN /\ onSuccess(k)
            /\ analysis' = [analysis EXCEPT !.pc = "analysis",
                                            !.rules = "loaded"]
       ELSE /\ onFailure(k)
            /\ analysis' = [analysis EXCEPT !.pc = "caught",
                                            !.caught = outcome.error.class]
  /\ UNCHANGED <<response, serverStatus>>

\* mutant of ruleLoadCaught: an error that is not an AILintError is not
\* handed over
ruleLoadCaught_classified ==
  /\ analysis.pc = "caught"
  /\ IF IsAILintError(analysis.caught)
     THEN /\ handleErrorOn(RuleLoadError, MaxAnalyzeFirings)
          /\ analysis' = [analysis EXCEPT !.pc = "handing", !.handed = @ + 1]
     ELSE /\ analysis' = [analysis EXCEPT !.pc = "analysis",
                                          !.rules = "universal"]
          /\ UNCHANGED degradationVars
  /\ UNCHANGED <<response, serverStatus>>

\* the catch block of loadRulesWithFallback up to the await inside
\* handleError
ruleLoadCaught ==
  /\ analysis.pc = "caught"
  /\ handleErrorOn(RuleLoadError, MaxAnalyzeFirings)
  /\ analysis' = [analysis EXCEPT !.pc = "handing", !.handed = @ + 1]
  /\ UNCHANGED <<response, serverStatus>>

\* handleError returns, and the catch block returns getUniversalRules()
universalRules ==
  /\ analysis.pc = "handing"
  /\ handleErrorResumes
  /\ analysis' = [analysis EXCEPT !.pc = "analysis", !.rules = "universal"]
  /\ UNCHANGED <<response, serverStatus>>

\* analyze() returns a result (that of the analysis, or the failure result of
\* handleAnalysisFailure) and the CallTool handler builds the response: it
\* appends the level and the reason of degradationManager.getCurrentStatus()
\* when that level is not 'full'
respond ==
  /\ analysis.pc = "analysis"
  /\ response' =
       [isError |-> FALSE, rules |-> analysis.rules,
        level |-> IF serverStatus.level # ServiceLevel.FULL
                  THEN serverStatus.level ELSE "none",
        note |-> IF serverStatus.level # ServiceLevel.FULL
                 THEN serverStatus.degradationReason ELSE <<>>]
  /\ analysis' = [analysis EXCEPT !.pc = "idle"]
  /\ UNCHANGED serverStatus

vars == <<breakerVars, retryVars, cacheVars, degradationVars, analyzeVars,
          registryVars>>

\* the variables the breaker, the retry executor and the cache leave alone
\* (the clock `now` is shared)
breakerFields == <<state, failureCount, successCount, lastFailureTime,
                   lastSuccessTime, totalCalls, halfOpenCalls, options,
                   pending, last, hist>>
exceptBreaker ==
  <<retryVars, cacheVars, degradationVars, analyzeVars, registryVars>>
exceptRetry ==
  <<breakerVars, cacheVars, degradationVars, analyzeVars, registryVars>>
exceptCache ==
  <<breakerFields, retryVars, degradationVars, analyzeVars, registryVars>>
exceptDegradation ==
  <<breakerFields, retryVars, cacheVars, analyzeVars, registryVars>>
exceptRegistry ==
  <<breakerFields, retryVars, cacheVars, degradationVars, analyzeVars>>

\* the configuration of RuleCache
DefaultCacheConfig == [maxSize |-> 100, defaultTtl |-> 60 * 60 * 1000]

(* ---------------------------- specifications --------------------------- *)
\* the breaker under concurrent callers; no executeWithRetry call is running
Init ==
  /\ BreakerInit
  /\ RetryIdleWith(DefaultRetryOptions)
  /\ CacheInitWith(DefaultCacheConfig)
  /\ DegradationInit
  /\ AnalyzeInit
  /\ RegistryInit

Next ==
  \/ Execute /\ UNCHANGED exceptBreaker
  \/ (\E k \in Kinds : onSuccess(k)) /\ UNCHANGED exceptBreaker
  \/ (\E k \in Kinds : onFailure(k)) /\ UNCHANGED exceptBreaker
  \/ Reset /\ UNCHANGED exceptBreaker
  \/ Tick /\ UNCHANGED exceptBreaker

Spec == Init /\ [][Next]_vars

\* the breaker without administrative reset, where callers keep calling,
\* every admitted operation completes and time advances.  Only the time an
\* OPEN breaker spends waiting is modelled: the clock is read nowhere else.
LiveNext ==
  \/ Execute /\ UNCHANGED exceptBreaker
  \/ (\E k \in Kinds : onSuccess(k)) /\ UNCHANGED exceptBreaker
  \/ (\E k \in Kinds : onFailure(k)) /\ UNCHANGED exceptBreaker
  \/ TickWaiting /\ UNCHANGED exceptBreaker

LiveSpec ==
  /\ Init
  /\ [][LiveNext]_vars
  /\ WF_vars(Execute /\ UNCHANGED exceptBreaker)
  /\ \A k \in Kinds : WF_vars((onSuccess(k) \/ onFailure(k)) /\ UNCHANGED exceptBreaker)
  /\ WF_vars(TickWaiting /\ UNCHANGED exceptBreaker)

\* one call of executeWithRetry; the breaker is not used
InitRetry ==
  /\ BreakerInitWith(DefaultBreakerOptions)
  /\ CacheInitWith(DefaultCacheConfig)
  /\ DegradationInit
  /\ AnalyzeInit
  /\ RegistryInit
  /\ RetryInit

SpecRetry ==
  /\ InitRetry
  /\ [][RetryNext /\ UNCHANGED exceptRetry]_vars

\* one call of retryGitHubOperation
GitHubRetryNext ==
  \/ Call /\ UNCHANGED exceptRetry
  \/ AttemptSucceeds /\ UNCHANGED exceptRetry
  \/ AttemptFailsWith(GitHubClasses) /\ UNCHANGED exceptRetry
  \/ Wake /\ UNCHANGED exceptRetry

InitGitHubRetry ==
  /\ BreakerInitWith(DefaultBreakerOptions)
  /\ CacheInitWith(DefaultCacheConfig)
  /\ DegradationInit
  /\ AnalyzeInit
  /\ RegistryInit
  /\ RetryIdleWith(GitHubRetryOptions)

SpecGitHubRetry ==
  /\ InitGitHubRetry
  /\ [][GitHubRetryNext]_vars

\* one cache object under any sequence of operations, without snapshot file
CacheNext ==
  \/ set /\ UNCHANGED <<now, exceptCache>>
  \/ get /\ UNCHANGED <<now, exceptCache>>
  \/ CallInvalidate /\ UNCHANGED <<now, exceptCache>>
  \/ invalidatePattern /\ UNCHANGED <<now, exceptCache>>
  \/ performCleanup /\ UNCHANGED <<now, exceptCache>>
  \/ clear /\ UNCHANGED <<now, exceptCache>>
  \/ CacheTick /\ UNCHANGED exceptCache

InitCache ==
  /\ BreakerInitWith(DefaultBreakerOptions)
  /\ RetryIdleWith(DefaultRetryOptions)
  /\ DegradationInit
  /\ AnalyzeInit
  /\ RegistryInit
  /\ CacheInit

SpecCache ==
  /\ InitCache
  /\ [][CacheNext]_vars

\* the index cache of GitHubApiClient, its TTL of 5 minutes being one unit of
\* the clock
IndexCacheConfig == [maxSize |-> 1, defaultTtl |-> 1]

\* the index cache of a GitHubApiClient whose process may write the snapshot
\* file and start again at any moment
SnapshotNext ==
  \/ set /\ UNCHANGED <<now, exceptCache>>
  \/ get /\ UNCHANGED <<now, exceptCache>>
  \/ CacheTick /\ UNCHANGED exceptCache
  \/ saveCachesToDisk /\ UNCHANGED <<now, exceptCache>>
  \/ Restart /\ UNCHANGED <<now, exceptCache>>
  \/ loadCachesFromDisk /\ UNCHANGED <<now, exceptCache>>

InitSnapshot ==
  /\ BreakerInitWith(DefaultBreakerOptions)
  /\ RetryIdleWith(DefaultRetryOptions)
  /\ CacheInitWith(IndexCacheConfig)
  /\ DegradationInit
  /\ AnalyzeInit
  /\ RegistryInit

SpecSnapshot ==
  /\ InitSnapshot
  /\ [][SnapshotNext]_vars

\* one degradation manager under handleError calls that may overlap,
\* recovery attempts and the passing of time
DegradationNext ==
  \/ handleError /\ UNCHANGED <<now, exceptDegradation>>
  \/ handleErrorResumes /\ UNCHANGED <<now, exceptDegradation>>
  \/ attemptRecovery /\ UNCHANGED <<now, exceptDegradation>>
  \/ DegradationTick /\ UNCHANGED exceptDegradation

InitDegradation ==
  /\ BreakerInitWith(DefaultBreakerOptions)
  /\ RetryIdleWith(DefaultRetryOptions)
  /\ CacheInitWith(DefaultCacheConfig)
  /\ DegradationInit
  /\ AnalyzeInit
  /\ RegistryInit

SpecDegradation ==
  /\ InitDegradation
  /\ [][DegradationNext]_vars

\* one degradation manager under enough firings to overflow its history
HistoryNext ==
  \/ handleErrorOften /\ UNCHANGED <<now, exceptDegradation>>
  \/ handleErrorResumes /\ UNCHANGED <<now, exceptDegradation>>
  \/ now < MaxHistoryTime /\ DegradationTick /\ UNCHANGED exceptDegradation

SpecHistory ==
  /\ InitDegradation
  /\ [][HistoryNext]_vars

TypeOK ==
  /\ state \in CircuitState
  /\ failureCount \in Nat
  /\ successCount \in Nat
  /\ totalCalls \in 0..MaxCalls
  /\ halfOpenCalls \in Nat
  /\ lastFailureTime \in {NoTime} \cup 0..MaxTime
  /\ lastSuccessTime \in {NoTime} \cup 0..MaxTime
  /\ now \in 0..MaxTime
  /\ pending \in [Kinds -> 0..MaxPending]
\* analyze-code requests served one after the other, within the recovery
\* timeout of the breaker (the clock stands still); the server's timer calls
\* attemptRecovery on its own degradation manager, which is at FULL and
\* stays as it is
AnalyzeNext ==
  \/ analyzeCode /\ UNCHANGED <<cacheVars, degradationVars, registryVars>>
  \/ loadRules
       /\ UNCHANGED <<breakerVars, cacheVars, degradationVars, registryVars>>
  \/ ruleLoadSettles
       /\ UNCHANGED <<retryVars, cacheVars, degradationVars, registryVars>>
  \/ ruleLoadCaught
       /\ UNCHANGED <<now, breakerFields, retryVars, cacheVars, registryVars>>
  \/ universalRules
       /\ UNCHANGED <<now, breakerFields, retryVars, cacheVars, registryVars>>
  \/ respond /\ UNCHANGED <<breakerVars, retryVars, cacheVars,
                             degradationVars, registryVars>>

\* the registry under calls for two names, resets and the passing of time
RegistryNext ==
  \/ executeWithBreaker /\ UNCHANGED <<now, exceptRegistry>>
  \/ operationSettles /\ UNCHANGED <<now, exceptRegistry>>
  \/ resetAll /\ UNCHANGED <<now, exceptRegistry>>
  \/ RegistryTick /\ UNCHANGED exceptRegistry

InitRegistry ==
  /\ BreakerInitWith(DefaultBreakerOptions)
  /\ RetryIdleWith(DefaultRetryOptions)
  /\ CacheInitWith(DefaultCacheConfig)
  /\ DegradationInit
  /\ AnalyzeInit
  /\ RegistryInit

SpecRegistry ==
  /\ InitRegistry
  /\ [][RegistryNext]_vars

InitAnalyze ==
  /\ BreakerInitWith(RuleLoadingOptions)
  /\ RetryIdleWith(DefaultRetryOptions)
  /\ CacheInitWith(DefaultCacheConfig)
  /\ DegradationInit
  /\ AnalyzeInit
  /\ RegistryInit

SpecAnalyze ==
  /\ InitAnalyze
  /\ [][AnalyzeNext]_vars

(* ------------------------------- claims -------------------------------- *)
Elapsed == now - lastFailureTime
Last(log) == log[Len(log)]

\* C1: from creation (or a reset) the breaker has been OPEN exactly if
\* failureThreshold failed calls have completed; until then it is CLOSED, no
\* call has been rejected, and failureCount is the number of failed calls,
\* whatever successes were interleaved.
C1_OpensAtThreshold ==
  /\ hist.opened <=> hist.failed >= options.failureThreshold
  /\ ~hist.opened =>
       /\ state = CLOSED
       /\ ~hist.rejected
       /\ failureCount = hist.failed

\* the breaker opened on its second failure, after a success in CLOSED
C1_Witness ==
  /\ state = OPEN
  /\ options.failureThreshold = 2
  /\ hist.failed = 2
  /\ lastSuccessTime # NoTime
  /\ lastSuccessTime < lastFailureTime
  /\ hist.probes = 0

\* C2: an execute() on an OPEN breaker before recoveryTimeout has elapsed
\* rejects with the error naming the breaker as unavailable, does not invoke
\* the operation and changes no field of the breaker.
C2_OpenRejects ==
  [][ (state = OPEN /\ Elapsed < options.recoveryTimeout /\ last'.op = "execute")
        => /\ ~last'.invoked
           /\ last'.error = <<"Circuit breaker", BreakerName,
                              "is OPEN - service unavailable">>
           /\ UNCHANGED <<state, failureCount, successCount, totalCalls,
                          lastFailureTime, lastSuccessTime, halfOpenCalls>>
    ]_vars

\* a call was rejected by the OPEN breaker within the recovery timeout
C2_Witness ==
  /\ state = OPEN
  /\ Elapsed < options.recoveryTimeout
  /\ last.op = "execute"
  /\ last.error = OpenError
  /\ totalCalls > 0

\* C3 as stated: the first execute() on an OPEN breaker whose timeout has
\* elapsed moves it to HALF_OPEN and invokes the operation as probe number 1.
C3_AsStated ==
  [][ (state = OPEN /\ Elapsed >= options.recoveryTimeout /\ last'.op = "execute")
        => /\ state' = HALF_OPEN
           /\ last'.invoked
           /\ halfOpenCalls' = 1
           /\ hist'.probes = 1
    ]_vars

\* C3 amended: with halfOpenMaxCalls >= 1 that call moves the breaker to
\* HALF_OPEN and is invoked as probe number 1; with halfOpenMaxCalls = 0 it
\* moves the breaker to HALF_OPEN and is rejected without being invoked.
C3_FirstProbe ==
  [][ (state = OPEN /\ Elapsed >= options.recoveryTimeout /\ last'.op = "execute")
        => /\ state' = HALF_OPEN
           /\ IF options.halfOpenMaxCalls >= 1
              THEN last'.invoked /\ halfOpenCalls' = 1 /\ hist'.probes = 1
              ELSE ~last'.invoked /\ halfOpenCalls' = 0
                   /\ last'.error = HalfOpenError
    ]_vars

\* a call made exactly recoveryTimeout after the last failure was admitted
\* as the first probe
C3_Witness ==
  /\ state = HALF_OPEN
  /\ last.op = "execute"
  /\ last.entered
  /\ last.invoked
  /\ halfOpenCalls = 1
  /\ Elapsed = options.recoveryTimeout

\* C4 as stated: a HALF_OPEN breaker closes when, and only when,
\* halfOpenMaxCalls trial calls of this half-open episode have succeeded,
\* and then failureCount is 0.
C4_AsStated ==
  [][ (state = HALF_OPEN /\ last'.op = "success"
         /\ hist'.trialOk = hist.trialOk + 1)
        => /\ state' = CLOSED <=> hist'.trialOk >= options.halfOpenMaxCalls
           /\ state' = CLOSED => failureCount' = 0
    ]_vars

\* C5: the probes admitted since HALF_OPEN was entered last never exceed
\* halfOpenMaxCalls; of two execute() calls made back to back only the first
\* can enter HALF_OPEN; a call arriving at the limit is not invoked.
C5_ProbeLimit ==
  /\ [](hist.probes <= options.halfOpenMaxCalls)
  /\ [][ (last.op = "execute" /\ last.entered /\ last'.op = "execute")
           => ~last'.entered ]_vars
  /\ [][ (state = HALF_OPEN /\ hist.probes >= options.halfOpenMaxCalls
            /\ last'.op = "execute")
           => ~last'.invoked /\ totalCalls' = totalCalls ]_vars

\* every probe allowed was admitted and a further call was rejected while
\* the probes are still pending
C5_Witness ==
  /\ state = HALF_OPEN
  /\ options.halfOpenMaxCalls = 2
  /\ hist.probes = 2
  /\ pending["trial"] = 2
  /\ last.op = "execute"
  /\ last.error = HalfOpenError

\* C6: a failure completing in HALF_OPEN opens the breaker and stamps
\* lastFailureAt with its time; no call is invoked before recoveryTimeout
\* has elapsed from that failure.
C6_HalfOpenFailure ==
  /\ [][ (state = HALF_OPEN /\ last'.op = "failure")
           => state' = OPEN /\ lastFailureTime' = now ]_vars
  /\ [][ (hist.hoFailAt # NoTime /\ now - hist.hoFailAt < options.recoveryTimeout
            /\ last'.op = "execute")
           => ~last'.invoked /\ state' = OPEN ]_vars

\* a probe failed, the breaker reopened and rejected the next call
C6_Witness ==
  /\ state = OPEN
  /\ hist.hoFailAt = lastFailureTime
  /\ hist.hoFailAt # NoTime
  /\ last.op = "execute"
  /\ last.error = OpenError
\* C7: with halfOpenMaxCalls >= 1 (failureThreshold >= 1 throughout) and
\* without reset, from every state another call is eventually admitted, and
\* the breaker leaves OPEN and leaves HALF_OPEN again, as long as the model's
\* budget of MaxCalls admitted calls is not used up.
C7_NoTerminalState ==
  /\ \A n \in 0..(MaxCalls - 1) :
       (options.halfOpenMaxCalls >= 1 /\ totalCalls = n) ~> (totalCalls > n)
  /\ (options.halfOpenMaxCalls >= 1 /\ state = OPEN /\ totalCalls < MaxCalls)
       ~> (state # OPEN)
  /\ (options.halfOpenMaxCalls >= 1 /\ state = HALF_OPEN)
       ~> (state # HALF_OPEN \/ totalCalls = MaxCalls)

\* the breaker opened, was probed after the timeout, closed again and
\* admitted a further call
C7_Witness ==
  /\ state = CLOSED
  /\ hist.opened
  /\ hist.trialOk >= 1
  /\ last.op = "execute"
  /\ last.invoked

\* C8: the attempts are made one after another; after attempt n fails with e
\* the executor goes on to attempt n+1 exactly if n < maxAttempts and
\* retryCondition(e); the attempts reported are the invocations made, between
\* 1 and maxAttempts (RetryPolicy has maxAttempts >= 1), and 1 when the
\* predicate refuses the first failure.
C8_RetryDecision ==
  /\ [](/\ rpc = "attempt" => Invocations = attempt - 1
        /\ rpc = "sleeping" => Invocations = attempt
        /\ rpc = "returned" =>
             /\ outcome.attempts = Invocations
             /\ retryOptions.maxAttempts >= 1 =>
                  /\ 1 <= outcome.attempts
                  /\ outcome.attempts <= retryOptions.maxAttempts
             /\ (/\ Invocations = 1
                 /\ opLog[1].threw
                 /\ ~RetryCondition(retryOptions, opLog[1]))
                  => outcome.attempts = 1)
  /\ [][ (rpc = "attempt" /\ Last(opLog').threw) =>
           LET goesOn == attempt < retryOptions.maxAttempts
                           /\ RetryCondition(retryOptions, Last(opLog'))
           IN /\ goesOn => rpc' = "sleeping" /\ outcome' = NoOutcome
              /\ ~goesOn => rpc' = "returned" /\ ~outcome'.success
     ]_vars
  /\ [][ rpc = "sleeping" => rpc' = "attempt" /\ attempt' = attempt + 1 ]_vars

\* the predicate refused the first failure although two attempts were left
C8_Witness ==
  /\ rpc = "returned"
  /\ retryOptions.maxAttempts = 3
  /\ retryOptions.retryCondition.given
  /\ ~outcome.success
  /\ outcome.attempts = 1
  /\ Invocations = 1

\* C9: a call of executeWithRetry ends by returning; a success carries the
\* value of the one successful invocation, which is the last one made; a
\* failure with maxAttempts >= 1 carries the error the last invocation threw.
C9_Outcome ==
  /\ rpc \in {"start", "attempt", "sleeping", "returned"}
  /\ rpc = "returned" =>
       IF outcome.success
       THEN /\ outcome.result = Last(opLog)
            /\ outcome.result.no = Invocations
            /\ ~outcome.result.threw
            /\ \A i \in 1..(Invocations - 1) : opLog[i].threw
       ELSE retryOptions.maxAttempts >= 1 =>
              /\ outcome.error = Last(opLog)
              /\ outcome.error.threw
              /\ outcome.error.no = Invocations

\* three attempts failed with different errors and the third error is returned
C9_Witness ==
  /\ rpc = "returned"
  /\ ~outcome.success
  /\ Invocations = 3
  /\ opLog[1].class = "AnalysisError"
  /\ opLog[2].class = "GitHubAPIError"
  /\ outcome.error = Thrown("AnalysisError", 3)

\* the classified error classes whose retryable flag is false
NonRetryable == {c \in Classes : IsAILintError(c) /\ ~Retryable(c)}

\* C10 as stated: whatever the policy, a failure with an error whose
\* retryable flag is false ends the call with that error.
C10_AsStated ==
  [][ (/\ rpc = "attempt"
       /\ Last(opLog').class \in NonRetryable)
        => rpc' = "returned" /\ outcome' = FailureResult(Last(opLog'), attempt)
    ]_vars

\* C10 amended: when the caller supplies no retryCondition, a failure with an
\* error whose retryable flag is false ends the call with that error.
C10_DefaultPolicy ==
  [][ (/\ rpc = "attempt"
       /\ ~retryOptions.retryCondition.given
       /\ Last(opLog').class \in NonRetryable)
        => rpc' = "returned" /\ outcome' = FailureResult(Last(opLog'), attempt)
    ]_vars

\* under the default policy a retryable failure was retried and the
\* non-retryable failure that followed ended the call
C10_Witness ==
  /\ rpc = "returned"
  /\ ~retryOptions.retryCondition.given
  /\ retryOptions.maxAttempts = 3
  /\ Invocations = 2
  /\ opLog[1].class = "GitHubAPIError"
  /\ ~outcome.success
  /\ outcome.error = Thrown("ConfigurationError", 2)

\* min(maxDelay, baseDelay * backoffMultiplier^(n-1)) for the call's options
Nominal(n) ==
  LET d == retryOptions.baseDelay * Pow(retryOptions.backoffMultiplier, n - 1)
  IN IF d <= retryOptions.maxDelay THEN d ELSE retryOptions.maxDelay

\* C11: the delay slept between failed attempt n and attempt n+1 is
\* min(maxDelay, baseDelay * backoffMultiplier^(n-1)) without jitter and,
\* with jitter, within 25% of that value and not negative; attempt n starts
\* after exactly n-1 delays, and an outcome with attempts = k (k >= 1 for
\* maxAttempts >= 1) follows exactly k-1 delays.
C11_BackoffDelays ==
  /\ \A n \in 1..Len(delays) :
       IF retryOptions.jitter
       THEN /\ 4 * (delays[n] - Nominal(n)) <= Nominal(n)
            /\ 4 * (Nominal(n) - delays[n]) <= Nominal(n)
            /\ delays[n] >= 0
       ELSE delays[n] = Nominal(n)
  /\ rpc = "start" => delays = <<>>
  /\ rpc = "attempt" => Len(delays) = attempt - 1
  /\ rpc = "sleeping" => Len(delays) = attempt
  /\ (rpc = "returned" /\ retryOptions.maxAttempts >= 1) =>
       Len(delays) = outcome.attempts - 1

\* baseDelay 100, multiplier 2, no jitter: the fourth attempt ended the call
\* after the delays 100, 200, 400
C11_Witness ==
  /\ rpc = "returned"
  /\ outcome.attempts = 4
  /\ ~retryOptions.jitter
  /\ retryOptions.baseDelay = 100
  /\ retryOptions.backoffMultiplier = 2
  /\ retryOptions.maxDelay = 10000
  /\ delays = <<100, 200, 400>>

\* with jitter a delay of 75 (25% below 100) and a capped delay of 372
\* (24% above 300) were slept
C11_WitnessJitter ==
  /\ retryOptions.jitter
  /\ retryOptions.maxDelay = 300
  /\ Len(delays) = 3
  /\ delays[1] = 75
  /\ delays[3] = 372

\* how often key k occurs in the list l
Occurrences(l, k) == Cardinality({i \in 1..Len(l) : l[i] = k})

\* C12: after any sequence of completed operations on a cache with
\* maxSize >= 1, size is the number of stored entries and the length of the
\* LRU list, every stored key occurs in that list exactly once, and size is
\* at most maxSize.
C12_AsStated ==
  (cacheConfig.maxSize >= 1 /\ ~Hung) =>
     /\ stats.size = Len(cache)
     /\ stats.size = Len(lru)
     /\ \A k \in MapKeys(cache) : Occurrences(lru, k) = 1
     /\ stats.size <= cacheConfig.maxSize

\* C13: when set inserts a new key into a cache (maxSize >= 1) that holds
\* maxSize entries, the call returns having removed exactly the stored key
\* whose latest set or get-hit is the oldest, evictions has grown by 1 and
\* every other entry is as before.
C13_AsStated ==
  [][ (/\ clast'.op \in {"set", "hang"}
       /\ cacheConfig.maxSize >= 1
       /\ ~MapHas(cache, clast'.key)
       /\ Len(cache) = cacheConfig.maxSize)
        => /\ clast'.op = "set"
           /\ MapKeys(cache') =
                (MapKeys(cache) \ {Head(useOrder)}) \cup {clast'.key}
           /\ stats'.evictions = stats.evictions + 1
           /\ \A k \in MapKeys(cache) \ {Head(useOrder)} :
                MapGet(cache', k) = MapGet(cache, k)
    ]_vars

\* the age of the latest set of key k exceeds its ttl
Elapsed14(k) == live[k].ttl > 0 /\ now - live[k].at > live[k].ttl

\* C14: get(k) returns the value of the most recent set(k, v) and counts a
\* hit whenever, since that set, k has not been invalidated, evicted for
\* capacity or cleared and its TTL has not elapsed.
C14_LatestValue ==
  [][ (/\ clast'.op = "get"
       /\ live[clast'.key].present
       /\ ~Elapsed14(clast'.key))
        => /\ clast'.result # Null
           /\ clast'.result.data = live[clast'.key].data
           /\ stats'.hits = stats.hits + 1
    ]_vars

\* a key written twice at time 0, last with value v2 and ttl 1, was read at
\* time 1 as a hit returning v2
C14_Witness ==
  /\ clast.op = "get"
  /\ clast.result # Null
  /\ clast.result.data = "v2"
  /\ clast.result.ttl = 1
  /\ clast.result.timestamp = 0
  /\ now = 1
  /\ stats.hits = 1
  /\ cacheConfig.maxSize = 1

\* C15: get(k) returns absent and adds 1 to misses exactly when k is not
\* stored or its entry has ttl > 0 and now - timestamp > ttl, and then k is
\* not stored afterwards; otherwise it returns the entry, adds 1 to hits and
\* k is most recently used.  An entry with ttl = 0 is never removed as
\* expired, by get or by the sweep.
C15_GetOutcome ==
  [][ /\ clast'.op = "get" =>
          LET k == clast'.key
              absent == \/ ~MapHas(cache, k)
                        \/ /\ MapGet(cache, k).ttl > 0
                           /\ now - MapGet(cache, k).timestamp > MapGet(cache, k).ttl
          IN IF absent
             THEN /\ clast'.result = Null
                  /\ stats'.misses = stats.misses + 1
                  /\ stats'.hits = stats.hits
                  /\ ~MapHas(cache', k)
             ELSE /\ clast'.result = MapGet(cache, k)
                  /\ stats'.hits = stats.hits + 1
                  /\ stats'.misses = stats.misses
                  /\ MapHas(cache', k)
                  /\ Last(lru') = k
      /\ clast'.op \in {"get", "performCleanup"} =>
          \A k \in MapKeys(cache) :
             MapGet(cache, k).ttl = 0 => MapHas(cache', k)
    ]_vars

\* an entry written at time 0 with ttl 1 was read at time 2: absent, a miss,
\* and the entry is gone
C15_Witness ==
  /\ clast.op = "get"
  /\ clast.result = Null
  /\ stats.misses = 1
  /\ live[clast.key].present
  /\ live[clast.key].ttl = 1
  /\ live[clast.key].at = 0
  /\ now = 2
  /\ ~MapHas(cache, clast.key)

\* C16: after the snapshot was loaded at start-up, get on a key whose entry
\* had outlived its TTL, counted from the write time in the snapshot, returns
\* absent.
C16_AsStated ==
  [][ (clast'.op = "get" /\ clast'.key \in staleLoaded)
        => clast'.result = Null
    ]_vars

\* C17: the status a handleError call installs and returns is, for a
\* non-critical error, DEGRADED for category external-service or resource
\* and MINIMAL for category network, with non-empty feature lists, a reason
\* and an estimated recovery time (the external-service reason naming the
\* GitHub API), and for a critical error EMERGENCY without estimated
\* recovery time, whatever the level was before.
C17_InstalledStatus ==
  dlast.op = "handleError" =>
    LET e == dlast.error
        s == dlast.status
        critical == e.severity = "critical"
        timed == /\ s.availableFeatures # <<>>
                 /\ s.unavailableFeatures # <<>>
                 /\ s.degradationReason # <<>>
                 /\ s.estimatedRecovery # NoTime
    IN /\ currentServiceStatus = s
       /\ critical =>
            /\ s.level = "emergency"
            /\ s.estimatedRecovery = NoTime
            /\ currentServiceLevel = "emergency"
       /\ (~critical /\ e.category \in {"external_service", "resource"}) =>
            /\ s.level = "degraded"
            /\ currentServiceLevel = "degraded"
            /\ timed
       /\ (~critical /\ e.category = "external_service") =>
            s.degradationReason[1] = "GitHub API unavailable"
       /\ (~critical /\ e.category = "network") =>
            /\ s.level = "minimal"
            /\ currentServiceLevel = "minimal"
            /\ timed

\* a non-critical external-service error was handled when the level was
\* EMERGENCY: the status installed is DEGRADED
C17_Witness ==
  /\ dlast.op = "handleError"
  /\ dlast.error.category = "external_service"
  /\ dlast.error.severity = "high"
  /\ currentServiceStatus.level = "degraded"
  /\ Len(degradationHistory) = 2
  /\ degradationHistory[2].level = "emergency"

\* the strategy the fixed order selects for error e, "none" if no predicate
\* matches
FirstMatch(e) ==
  IF e.severity = "critical" THEN "minimal-analysis"
  ELSE IF e.category = "external_service" THEN "github-api-fallback"
  ELSE IF e.category = "resource" THEN "analysis-simplification"
  ELSE IF e.category = "network" THEN "cache-only-mode"
  ELSE "none"

\* C18: a handleError call fires the first strategy, in the order
\* critical-severity, external-service, resource, network, whose predicate
\* matches the error, and no other: one event, naming that strategy, is
\* recorded and the status returned is the one of that strategy, so that a
\* critical error yields EMERGENCY whatever its category; a call whose error
\* matches no predicate fires nothing.
C18_FirstMatchOnly ==
  [][ /\ dlast'.op = "await" =>
          /\ FirstMatch(dlast'.error) # "none"
          /\ Len(degradationHistory') = Len(degradationHistory) + 1
          /\ Last(degradationHistory').reason[1] = FirstMatch(dlast'.error)
          /\ Last(handlers').fired = FirstMatch(dlast'.error)
      /\ dlast'.op = "handleError" =>
          /\ dlast'.fired = FirstMatch(dlast'.error)
          /\ degradationHistory' = degradationHistory
          /\ dlast'.error.severity = "critical" =>
                dlast'.status.level = "emergency"
          /\ dlast'.fired = "none" =>
                /\ dlast'.status = currentServiceStatus
                /\ UNCHANGED <<currentServiceStatus, currentServiceLevel>>
    ]_vars

\* a critical error of category external-service was handled: one event, of
\* the severity strategy, and EMERGENCY
C18_Witness ==
  /\ dlast.op = "handleError"
  /\ dlast.error.severity = "critical"
  /\ dlast.error.category = "external_service"
  /\ Len(degradationHistory) = 1
  /\ degradationHistory[1].reason[1] = "minimal-analysis"
  /\ currentServiceStatus.level = "emergency"
  /\ handlers = <<>>

\* the time since the latest strategy firing, in milliseconds
SinceFiring == (now - Last(degradationHistory).timestamp) * TimeUnit

\* C19: attemptRecovery() called at a non-FULL level more than 30 minutes
\* after the last degradation returns true, and getCurrentStatus() then
\* reports level FULL with no unavailable features.
C19_AsStated ==
  [][ (/\ dlast'.op = "attemptRecovery"
       /\ currentServiceLevel # "full"
       /\ degradationHistory # <<>>
       /\ SinceFiring > 30 * 60 * 1000)
        => /\ dlast'.ok
           /\ currentServiceStatus'.level = "full"
           /\ currentServiceStatus'.unavailableFeatures = <<>>
    ]_vars

\* C20: attemptRecovery() returns true and changes nothing when the level is
\* FULL, and returns false and changes nothing when the level is not FULL
\* and at most 30 minutes have passed since the latest strategy firing.
C20_RecoveryFrame ==
  [][ dlast'.op = "attemptRecovery" =>
        /\ currentServiceLevel = "full" =>
             /\ dlast'.ok
             /\ UNCHANGED <<currentServiceLevel, currentServiceStatus,
                            lastDegradation, degradationHistory, handlers>>
        /\ (/\ currentServiceLevel # "full"
            /\ degradationHistory # <<>>
            /\ SinceFiring <= 30 * 60 * 1000) =>
             /\ ~dlast'.ok
             /\ UNCHANGED <<currentServiceLevel, currentServiceStatus,
                            lastDegradation, degradationHistory, handlers>>
    ]_vars

\* 40 minutes after the first firing and exactly 30 minutes after the second
\* one, attemptRecovery() returned false
C20_Witness ==
  /\ dlast.op = "attemptRecovery"
  /\ ~dlast.ok
  /\ currentServiceLevel # "full"
  /\ Len(degradationHistory) = 2
  /\ degradationHistory[1].timestamp = 0
  /\ degradationHistory[2].timestamp = 1
  /\ now = 4
  /\ handlers = <<>>

\* C21: getDegradationHistory() holds at most 50 events, and they are the
\* latest firings, oldest first: all of them while there were at most 50
\* firings, and exactly the last 50 afterwards (so after 60 firings).
C21_LatestFifty ==
  LET n == Len(allFirings) IN
  /\ Len(degradationHistory) <= 50
  /\ Len(degradationHistory) = IF n <= 50 THEN n ELSE 50
  /\ \A i \in 1..Len(degradationHistory) :
       degradationHistory[i] = allFirings[n - Len(degradationHistory) + i]

\* 60 firings at two different times: the history starts after the tenth
C21_Witness ==
  /\ Len(allFirings) = 60
  /\ Len(degradationHistory) = 50
  /\ allFirings[1].timestamp = 0
  /\ allFirings[10].timestamp = 0
  /\ allFirings[1].level = "full"
  /\ degradationHistory[1].timestamp = 1
  /\ degradationHistory[50].timestamp = 1

\* C22: a handleError call on an error no strategy matches (a validation,
\* analysis, configuration, rate-limit or authentication error that is not
\* critical) returns the current status and changes neither the status, the
\* level, the time of the last degradation nor the history.
C22_NoMatchFrame ==
  [][ (/\ dlast'.op = "handleError"
       /\ dlast'.error.category \in
            {"validation", "analysis", "configuration", "rate_limit",
             "authentication"}
       /\ dlast'.error.severity # "critical")
        => /\ dlast'.status = currentServiceStatus
           /\ currentServiceStatus' = currentServiceStatus
           /\ currentServiceLevel' = currentServiceLevel
           /\ lastDegradation' = lastDegradation
           /\ degradationHistory' = degradationHistory ]_vars

\* a configuration error arrives while the service is degraded
C22_Witness ==
  /\ dlast.op = "handleError"
  /\ dlast.error.category = "configuration"
  /\ dlast.error.severity = "high"
  /\ dlast.status.level = "degraded"
  /\ currentServiceLevel = "degraded"
  /\ Len(degradationHistory) = 1

\* C23: until a handleError call fires a strategy, the manager reports the
\* status it was built with: level FULL, a non-empty list of available
\* features (the six of the constructor), no unavailable feature, no reason
\* and no estimated recovery.
C23_FullUntilFiring ==
  allFirings = <<>> =>
    /\ currentServiceStatus.level = "full"
    /\ Len(currentServiceStatus.availableFeatures) > 0
    /\ currentServiceStatus.availableFeatures =
         <<"Complete code analysis", "All rule sets (universal + GitHub)",
           "Advanced metrics calculation", "Educational explanations",
           "Detailed suggestions", "Framework-specific analysis">>
    /\ currentServiceStatus.unavailableFeatures = <<>>
    /\ currentServiceStatus.degradationReason = <<>>
    /\ currentServiceStatus.estimatedRecovery = -1
    /\ currentServiceLevel = "full"

\* time has passed, an unmatched error was handled, and no strategy has fired
C23_Witness ==
  /\ allFirings = <<>>
  /\ now = 2
  /\ dlast.op = "handleError"
  /\ dlast.error.category = "authentication"
  /\ dlast.status.level = "full"
  /\ currentServiceStatus.level = "full"

\* C24: each service level has one fixed feature manifest, so two statuses
\* the manager reports one after the other with the same level list the same
\* available and unavailable features.
C24_AsStated ==
  [][ currentServiceStatus'.level = currentServiceStatus.level
        => /\ currentServiceStatus'.availableFeatures =
                currentServiceStatus.availableFeatures
           /\ currentServiceStatus'.unavailableFeatures =
                currentServiceStatus.unavailableFeatures ]_vars

\* C30: apart from clear(), no operation decreases the hits, misses or
\* evictions counter, and every get adds exactly 1 to exactly one of hits
\* and misses.
C30_MonotonicStats ==
  [][ /\ clast'.op # "clear" =>
          /\ stats'.hits >= stats.hits
          /\ stats'.misses >= stats.misses
          /\ stats'.evictions >= stats.evictions
      /\ clast'.op = "get" =>
          \/ stats'.hits = stats.hits + 1 /\ stats'.misses = stats.misses
          \/ stats'.hits = stats.hits /\ stats'.misses = stats.misses + 1
    ]_vars

\* a get of an entry whose TTL has elapsed, after a hit
C30_Witness ==
  /\ clast.op = "get"
  /\ clast.result = Null
  /\ stats.hits = 1
  /\ stats.misses = 1
  /\ live[clast.key].present
  /\ ~MapHas(cache, clast.key)

\* C29: retryGitHubOperation calls the operation at most 5 times; after a
\* failure it makes no further attempt when the error is a GitHubAPIError
\* with status 401 or 404, a RuleLoadError caused by one, or an error that is
\* not an AILintError; after a failure with another classified error, before
\* the fifth attempt, it goes on exactly when the error's retryable flag is
\* true.
C29_GitHubPreset ==
  [][ /\ Len(opLog') <= 5
      /\ (Len(opLog') = Len(opLog) + 1 /\ Last(opLog').threw) =>
           LET c == Last(opLog').class
               goesOn == rpc' = "sleeping"
           IN IF c \in {"GitHubAPIError 401", "GitHubAPIError 404",
                        "RuleLoadError by GitHubAPIError 401",
                        "RuleLoadError by GitHubAPIError 404", "Error"}
              THEN ~goesOn /\ rpc' = "returned" /\ ~outcome'.success
              ELSE Len(opLog') < 5 =>
                     (goesOn <=> c \in {"AnalysisError", "GitHubAPIError",
                                        "RuleLoadError",
                                        "RuleLoadError by GitHubAPIError"})
    ]_vars

\* four retried failures, and a fifth attempt that fails with status 404
C29_Witness ==
  /\ Len(opLog) = 5
  /\ opLog[1].class = "GitHubAPIError"
  /\ opLog[2].class = "RuleLoadError"
  /\ opLog[4].class = "RuleLoadError by GitHubAPIError"
  /\ opLog[5].class = "GitHubAPIError 404"
  /\ rpc = "returned"
  /\ ~outcome.success
  /\ outcome.attempts = 5

\* a status 401 on the first attempt ends the call
C29_WitnessUnauthorized ==
  /\ Len(opLog) = 1
  /\ opLog[1].class = "GitHubAPIError 401"
  /\ rpc = "returned"
  /\ outcome.attempts = 1

\* C25: when rule loading failed during an analyze-code request and the
\* service degraded, the response is a result, not an error, and carries the
\* degraded service level and its reason.
C25_AsStated ==
  (response.rules = "universal" /\ currentServiceStatus.level # "full") =>
    /\ ~response.isError
    /\ response.level = currentServiceStatus.level
    /\ response.note = currentServiceStatus.degradationReason

\* C26: when loadRulesWithFallback has returned, a rule load that failed
\* (the retries ended without success, or the breaker rejected the call, and
\* then the rule loader was not invoked) was handed to the degradation
\* manager exactly once and is answered with the universal rules; a rule load
\* that succeeded was handed over never; and no response is an error.
C26_FallbackOnce ==
  /\ ~response.isError
  /\ analysis.handed <= 1
  /\ analysis.pc = "analysis" =>
       IF rpc = "returned" /\ outcome.success
       THEN analysis.handed = 0 /\ analysis.rules = "loaded"
       ELSE /\ analysis.handed = 1
            /\ analysis.rules = "universal"
            /\ Len(allFirings) >= 1
            /\ analysis.caught = "Error" => opLog = <<>>
            /\ analysis.caught # "Error" =>
                 /\ opLog # <<>>
                 /\ analysis.caught = Last(opLog).class

\* the fourth request is rejected by the OPEN breaker after three requests
\* whose retries failed
C26_Witness ==
  /\ analysis.pc = "analysis"
  /\ analysis.caught = "Error"
  /\ analysis.handed = 1
  /\ analysis.rules = "universal"
  /\ state = "open"
  /\ failureCount = 3
  /\ opLog = <<>>
  /\ Len(allFirings) = 4

\* three attempts of one request fail
C26_WitnessExhausted ==
  /\ analysis.pc = "analysis"
  /\ Len(opLog) = 3
  /\ analysis.caught = "RuleLoadError by GitHubAPIError"
  /\ analysis.handed = 1
  /\ failureCount = 1

\* C27: resetAll() leaves every registered breaker registered under its
\* name, in CLOSED, with failureCount, successCount, totalCalls and the
\* half-open probe counter at 0 and both timestamps cleared.
C27_ResetAll ==
  [][ rlast'.op = "resetAll" =>
        /\ DOMAIN breakers' = DOMAIN breakers
        /\ \A n \in DOMAIN breakers :
             /\ breakers'[n].state = "closed"
             /\ breakers'[n].failureCount = 0
             /\ breakers'[n].successCount = 0
             /\ breakers'[n].totalCalls = 0
             /\ breakers'[n].halfOpenCalls = 0
             /\ breakers'[n].lastFailureTime = -1
             /\ breakers'[n].lastSuccessTime = -1 ]_vars

\* both breakers are registered and reset while a call of one is in flight
C27_Witness ==
  /\ rlast.op = "resetAll"
  /\ DOMAIN breakers = {"github-api", "rule-engine"}
  /\ breakers["rule-engine"].state = "closed"
  /\ breakers["rule-engine"].totalCalls = 0
  /\ breakers["rule-engine"].pending = 1
  /\ breakers["github-api"].successCount = 0
  /\ now = 2

\* C28: a call on the breaker of one name, and the completion of such a
\* call, leave the breaker of every other name as it is; the first reference
\* to a name registers a new breaker, and a later reference works on the
\* breaker registered before: its options, counters of completed calls and
\* timestamps are those it had, and totalCalls grows by one when the call is
\* admitted.
C28_PerName ==
  [][ \A n \in {"github-api", "rule-engine"} :
        /\ (/\ rlast'.op \in {"executeWithBreaker", "settle"}
            /\ rlast'.name # n
            /\ n \in DOMAIN breakers)
             => n \in DOMAIN breakers' /\ breakers'[n] = breakers[n]
        /\ (rlast'.op = "executeWithBreaker" /\ rlast'.name = n)
             => /\ DOMAIN breakers' = DOMAIN breakers \cup {n}
                /\ IF n \in DOMAIN breakers
                   THEN /\ breakers'[n].options = breakers[n].options
                        /\ breakers'[n].successCount = breakers[n].successCount
                        /\ breakers'[n].failureCount = breakers[n].failureCount
                        /\ breakers'[n].lastFailureTime =
                             breakers[n].lastFailureTime
                        /\ breakers'[n].lastSuccessTime =
                             breakers[n].lastSuccessTime
                        /\ breakers'[n].totalCalls =
                             breakers[n].totalCalls
                               + (IF rlast'.admitted THEN 1 ELSE 0)
                   ELSE /\ rlast'.admitted
                        /\ breakers'[n].state = "closed"
                        /\ breakers'[n].totalCalls = 1
                        /\ breakers'[n].successCount = 0
                        /\ breakers'[n].failureCount = 0 ]_vars

\* one breaker is OPEN and rejects a call while the other stays CLOSED with
\* its success
C28_Witness ==
  /\ rlast.op = "executeWithBreaker"
  /\ rlast.name = "rule-engine"
  /\ ~rlast.admitted
  /\ DOMAIN breakers = {"github-api", "rule-engine"}
  /\ breakers["rule-engine"].state = "open"
  /\ breakers["rule-engine"].failureCount = 2
  /\ breakers["github-api"].state = "closed"
  /\ breakers["github-api"].successCount = 1

\* C31: a handleError call that fires a strategy appends exactly one event
\* to the history; the level of that event is the level of the status this
\* firing installs, and its reason names the strategy and the error.
C31_AsStated ==
  [][ dlast'.op = "await" =>
        /\ Len(allFirings') = Len(allFirings) + 1
        /\ Last(degradationHistory') = Last(allFirings')
        /\ Last(degradationHistory').reason =
             <<dlast'.fired, dlast'.error.message>>
        /\ Last(degradationHistory').level = Last(handlers').status.level
    ]_vars

\* C32: when the last of a group of overlapping handleError calls returns,
\* the current status is the one built by the strategy of the last event of
\* the history, and the current level is the level of the current status;
\* the status stays that of the last event while no call is suspended.
C32_LastFiringWins ==
  [][ (handlers' = <<>> /\ degradationHistory' # <<>>) =>
        LET event == Last(degradationHistory')
            name == event.reason[1]
        IN /\ currentServiceStatus'.level =
                CASE name = "minimal-analysis" -> "emergency"
                  [] name = "github-api-fallback" -> "degraded"
                  [] name = "analysis-simplification" -> "degraded"
                  [] name = "cache-only-mode" -> "minimal"
           /\ currentServiceStatus'.degradationReason[1] =
                CASE name = "minimal-analysis" -> "Critical system issues"
                  [] name = "github-api-fallback" -> "GitHub API unavailable"
                  [] name = "analysis-simplification" -> "Resource constraints"
                  [] name = "cache-only-mode" -> "Network connectivity issues"
           /\ currentServiceStatus'.estimatedRecovery =
                CASE name = "minimal-analysis" -> -1
                  [] name = "github-api-fallback" -> event.timestamp + 3
                  [] name = "analysis-simplification" -> event.timestamp + 1
                  [] name = "cache-only-mode" -> event.timestamp + 6
           /\ (dlast'.op = "handleError" /\ dlast'.fired # "none") =>
                currentServiceLevel' = currentServiceStatus'.level
    ]_vars

\* two calls overlapped: the second fired the cache-only mode while the
\* first, which had fired the GitHub fallback, was suspended; both returned
C32_Witness ==
  /\ handlers = <<>>
  /\ dlast.op = "handleError"
  /\ dlast.behind = 1
  /\ dlast.fired = "cache-only-mode"
  /\ Len(degradationHistory) = 2
  /\ degradationHistory[1].reason[1] = "github-api-fallback"
  /\ degradationHistory[2].reason[1] = "cache-only-mode"
  /\ currentServiceStatus.level = "minimal"
  /\ currentServiceLevel = "minimal"

\* C33: set on a key that is stored, whether or not its TTL has elapsed,
\* replaces its value, write time and TTL, makes the key the most recently
\* used one, removes no entry, keeps the other entries and their order of
\* use, and leaves the statistics, size and evictions included, unchanged.
C33_Overwrite ==
  [][ (/\ clast'.op = "set"
       /\ \E i \in 1..Len(cache) : cache[i].key = clast'.key)
        => LET k == clast'.key IN
           /\ Len(cache') = Len(cache)
           /\ \A i \in 1..Len(cache) :
                IF cache[i].key = k
                THEN /\ cache'[i].key = k
                     /\ cache'[i].data = live'[k].data
                     /\ cache'[i].timestamp = now
                     /\ cache'[i].ttl = live'[k].ttl
                     /\ cache'[i].ttl \in {0, cacheConfig.defaultTtl}
                ELSE cache'[i] = cache[i]
           /\ lru' # <<>>
           /\ lru'[Len(lru')] = k
           /\ SelectSeq(lru', LAMBDA x : x # k) =
                SelectSeq(lru, LAMBDA x : x # k)
           /\ stats' = stats
    ]_vars

\* with room for two entries and a TTL of 1, key a was written again at
\* time 2 after key b had been added at time 0: both are stored, b with an
\* elapsed TTL, a is the most recently used and nothing was evicted
C33_Witness ==
  /\ clast.op = "set"
  /\ clast.key = "a"
  /\ now = 2
  /\ cacheConfig = [maxSize |-> 2, defaultTtl |-> 1]
  /\ Len(cache) = 2
  /\ cache[1].key = "a" /\ cache[1].timestamp = 2 /\ cache[1].data = "v2"
  /\ cache[2].key = "b" /\ cache[2].timestamp = 0 /\ cache[2].ttl = 1
  /\ lru = <<"b", "a">>
  /\ stats.size = 2
  /\ stats.evictions = 0

\* C34: a breaker created with failureThreshold >= 1 that is CLOSED has
\* fewer failures counted than its threshold, also after calls admitted in an
\* earlier state of the breaker have completed.
C34_ClosedBelowThreshold ==
  (options.failureThreshold >= 1 /\ state = "closed")
    => failureCount < options.failureThreshold

\* two failures opened the breaker, two probes were admitted in HALF_OPEN,
\* the success of one closed it, and the other then failed in CLOSED
C34_Witness ==
  /\ state = "closed"
  /\ last.op = "failure"
  /\ options.failureThreshold = 2
  /\ options.halfOpenMaxCalls = 2
  /\ failureCount = 1
  /\ successCount = 1
  /\ totalCalls = 4
  /\ hist.failed = 3
  /\ hist.probes = 2
  /\ hist.trialOk = 1
  /\ pending["trial"] = 0 /\ pending["other"] = 0

\* C35: in a run without reset, totalCalls = successCount + failureCount +
\* the number of admitted calls in flight; a rejected call changes none of
\* the counters, and the completion of an admitted call adds 1 to exactly
\* one of successCount and failureCount.
C35_AsStated ==
  /\ [](totalCalls = successCount + failureCount
                       + pending["trial"] + pending["other"])
  /\ [][ /\ (last'.op = "execute" /\ ~last'.invoked) =>
               UNCHANGED <<totalCalls, successCount, failureCount, pending>>
         /\ last'.op = "success" =>
               /\ successCount' = successCount + 1
               /\ failureCount' # failureCount + 1
         /\ last'.op = "failure" =>
               /\ failureCount' = failureCount + 1
               /\ successCount' = successCount
     ]_vars

\* C35, amended: in a run without reset, totalCalls = successCount + the
\* number of failed completions + the number of admitted calls in flight;
\* failureCount counts the failed completions since the breaker last closed
\* from HALF_OPEN (a success that closes it sets failureCount to 0, any
\* other success leaves it alone, a failure adds 1); an admitted call adds 1
\* to totalCalls and to the calls in flight, a rejected call changes none of
\* the counters, and a completion adds 1 to exactly one of successCount and
\* the failed completions.
C35_CallAccounting ==
  /\ [](/\ totalCalls = successCount + hist.failed
                         + pending["trial"] + pending["other"]
        /\ failureCount <= hist.failed)
  /\ [][ /\ (last'.op = "execute" /\ ~last'.invoked) =>
               UNCHANGED <<totalCalls, successCount, failureCount, pending>>
         /\ (last'.op = "execute" /\ last'.invoked) =>
               /\ totalCalls' = totalCalls + 1
               /\ pending'["trial"] + pending'["other"] =
                    pending["trial"] + pending["other"] + 1
               /\ UNCHANGED <<successCount, failureCount>>
         /\ last'.op = "success" =>
               /\ successCount' = successCount + 1
               /\ hist'.failed = hist.failed
               /\ failureCount' =
                    IF state = "half_open" /\ state' = "closed"
                    THEN 0 ELSE failureCount
               /\ totalCalls' = totalCalls
         /\ last'.op = "failure" =>
               /\ failureCount' = failureCount + 1
               /\ hist'.failed = hist.failed + 1
               /\ successCount' = successCount
               /\ totalCalls' = totalCalls
     ]_vars

\* one call failed and opened the breaker, a call was rejected, the probe
\* succeeded and closed it, and one more call is in flight
C35_Witness ==
  /\ state = "closed"
  /\ options.failureThreshold = 1
  /\ options.halfOpenMaxCalls = 1
  /\ hist.rejected
  /\ hist.failed = 1
  /\ failureCount = 0
  /\ successCount = 1
  /\ totalCalls = 3
  /\ pending["other"] = 1 /\ pending["trial"] = 0

\* C36: while the breaker is OPEN, the completion of a call admitted earlier
\* leaves it OPEN: a success changes neither the state, the failure count
\* nor the time of the last failure; a failure adds 1 to failureCount and
\* sets the time of the last failure to the present, and a call made less
\* than recoveryTimeout after that time is rejected and leaves the breaker
\* OPEN.
C36_LateCompletion ==
  [][ state = "open" =>
        /\ last'.op = "success" =>
              /\ state' = "open"
              /\ failureCount' = failureCount
              /\ lastFailureTime' = lastFailureTime
        /\ last'.op = "failure" =>
              /\ state' = "open"
              /\ failureCount' = failureCount + 1
              /\ lastFailureTime' = now
              /\ lastFailureTime' >= lastFailureTime
        /\ (last'.op = "execute"
              /\ now - lastFailureTime < options.recoveryTimeout) =>
              /\ ~last'.invoked
              /\ state' = "open"
              /\ totalCalls' = totalCalls
    ]_vars

\* with a threshold of 1 and a recovery timeout of 2, a second call failed
\* at time 1 while the breaker was OPEN, and a call made at time 2 was
\* rejected
C36_Witness ==
  /\ state = "open"
  /\ last.op = "execute"
  /\ ~last.invoked
  /\ options.failureThreshold = 1
  /\ options.recoveryTimeout = 2
  /\ failureCount = 2
  /\ hist.failed = 2
  /\ hist.hoFailAt = -1
  /\ totalCalls = 2
  /\ lastFailureTime = 1
  /\ now = 2

\* C37: the options of a breaker are those passed by the call that
\* registered its name: no later call on the registry, whatever options it
\* passes, and no resetAll() changes the options of a registered breaker,
\* and a failure in CLOSED opens the breaker exactly when its count reaches
\* the threshold the breaker was registered with.
C37_OptionsFixed ==
  [][ /\ \A n \in DOMAIN breakers :
             /\ n \in DOMAIN breakers'
             /\ breakers'[n].options = breakers[n].options
      /\ (rlast'.op = "executeWithBreaker"
            /\ rlast'.name \notin DOMAIN breakers) =>
             breakers'[rlast'.name].options = rlast'.options
      /\ (/\ rlast'.op = "settle"
          /\ breakers[rlast'.name].state = "closed"
          /\ breakers'[rlast'.name].failureCount =
               breakers[rlast'.name].failureCount + 1) =>
             (breakers'[rlast'.name].state = "open"
                <=> breakers'[rlast'.name].failureCount >=
                      breakers[rlast'.name].options.failureThreshold)
    ]_vars

\* the rule-engine breaker was registered with a threshold of 2; after one
\* failure a call passing a threshold of 1 was admitted by the breaker,
\* which is CLOSED with its threshold of 2
C37_Witness ==
  /\ rlast.op = "executeWithBreaker"
  /\ rlast.name = "rule-engine"
  /\ rlast.admitted
  /\ rlast.options.failureThreshold = 1
  /\ "rule-engine" \in DOMAIN breakers
  /\ breakers["rule-engine"].options.failureThreshold = 2
  /\ breakers["rule-engine"].failureCount = 1
  /\ breakers["rule-engine"].state = "closed"
  /\ breakers["rule-engine"].totalCalls = 2

\* C38: the 'rule-loading' breaker counts a rule-load request once: an
\* attempt of the retry loop, failed or not, changes no counter of the
\* breaker; when the retry loop has returned, a request whose last attempt
\* failed adds exactly 1 to failureCount and nothing to successCount,
\* however many attempts it made, and a request whose last attempt succeeded
\* adds 1 to successCount and records no failure, however many attempts
\* failed before.
C38_OncePerRequest ==
  [][ /\ Len(opLog') = Len(opLog) + 1 =>
             UNCHANGED <<failureCount, successCount, totalCalls, state>>
      /\ (analysis.pc = "loading" /\ analysis'.pc = "caught") =>
             /\ opLog # <<>>
             /\ opLog[Len(opLog)].threw
             /\ failureCount' = failureCount + 1
             /\ successCount' = successCount
             /\ totalCalls' = totalCalls
      /\ (analysis.pc = "loading" /\ analysis'.pc = "analysis") =>
             /\ opLog # <<>>
             /\ ~opLog[Len(opLog)].threw
             /\ successCount' = successCount + 1
             /\ failureCount' = failureCount
             /\ hist'.failed = hist.failed
             /\ totalCalls' = totalCalls
      /\ (analysis.pc = "idle" /\ analysis'.pc = "loading") =>
             /\ totalCalls' = totalCalls + 1
             /\ UNCHANGED <<failureCount, successCount>>
      /\ analysis'.pc = analysis.pc =>
             UNCHANGED <<failureCount, successCount, totalCalls>>
    ]_vars

\* the second request has made its three attempts, all failed, and the
\* breaker has counted two failures for its two calls
C38_Witness ==
  /\ analysis.pc = "caught"
  /\ last.op = "failure"
  /\ Len(opLog) = 3
  /\ opLog[1].threw /\ opLog[2].threw /\ opLog[3].threw
  /\ outcome.attempts = 3
  /\ totalCalls = 2
  /\ failureCount = 2
  /\ successCount = 0
  /\ state = "closed"

\* C39: the status a firing builds, and the level it sets, are given by the
\* strategy that matched and the time alone, whatever the level and the
\* status were before, and the call installs that status when it returns;
\* a firing at EMERGENCY can thus lead to DEGRADED with no recovery.
C39_StrategyAlone ==
  [][ /\ dlast'.op = "await" =>
          LET name == dlast'.fired
              built == Last(handlers').status
          IN /\ built.level =
                  CASE name = "minimal-analysis" -> "emergency"
                    [] name = "github-api-fallback" -> "degraded"
                    [] name = "analysis-simplification" -> "degraded"
                    [] name = "cache-only-mode" -> "minimal"
             /\ built.availableFeatures[1] =
                  CASE name = "minimal-analysis" -> "Syntax validation only"
                    [] name = "github-api-fallback" ->
                         "Universal rules analysis"
                    [] name = "analysis-simplification" ->
                         "Basic syntax validation"
                    [] name = "cache-only-mode" -> "Cached rule analysis"
             /\ built.degradationReason[2] =
                  CASE name = "minimal-analysis" -> "emergency mode only"
                    [] name = "github-api-fallback" -> "using local rules only"
                    [] name = "analysis-simplification" ->
                         "simplified analysis mode"
                    [] name = "cache-only-mode" -> "cache-only mode"
             /\ built.estimatedRecovery =
                  CASE name = "minimal-analysis" -> -1
                    [] name = "github-api-fallback" -> now + 3
                    [] name = "analysis-simplification" -> now + 1
                    [] name = "cache-only-mode" -> now + 6
             /\ currentServiceLevel' = built.level
      /\ (dlast'.op = "handleError" /\ dlast'.fired # "none") =>
          /\ currentServiceStatus' = Head(handlers).status
          /\ currentServiceLevel' = Head(handlers).status.level
          /\ dlast'.status = currentServiceStatus'
    ]_vars

\* at time 0 a critical error put the service in emergency mode and a
\* resource error that is not critical then moved it to DEGRADED
C39_Witness ==
  /\ dlast.op = "handleError"
  /\ dlast.fired = "analysis-simplification"
  /\ dlast.error.severity = "high"
  /\ now = 0
  /\ lastDegradation = 0
  /\ handlers = <<>>
  /\ Len(degradationHistory) = 2
  /\ degradationHistory[1].reason[1] = "minimal-analysis"
  /\ degradationHistory[2].level = "emergency"
  /\ currentServiceLevel = "degraded"
  /\ currentServiceStatus.level = "degraded"
  /\ currentServiceStatus.estimatedRecovery = 1

\* C40: a set call on a key that is not stored returns, whatever maxSize >= 0
\* the cache was configured with and whatever it holds, after evicting at
\* most size - maxSize + 1 entries (none when that is negative).
C40_AsStated ==
  [][ (/\ clast'.op \in {"set", "hang"}
       /\ cacheConfig.maxSize >= 0
       /\ ~(\E i \in 1..Len(cache) : cache[i].key = clast'.key))
        => /\ clast'.op = "set"
           /\ stats'.evictions - stats.evictions <=
                (IF stats.size - cacheConfig.maxSize + 1 > 0
                 THEN stats.size - cacheConfig.maxSize + 1 ELSE 0)
    ]_vars

====
